---- MODULE Spec2Model ----
(***************************************************************************)
(* Model of the processing workflow of aws-entity-resolution:              *)
(*   - S3Service.list_objects / S3Service.find_latest_path                 *)
(*     (services/s3.py),                                                   *)
(*   - EntityResolutionService.start_matching_job / get_job_status         *)
(*     (services.py),                                                      *)
(*   - wait_for_matching_job / process_data (processor/processor.py).      *)
(*                                                                         *)
(* Text (object keys, patterns, messages) is a sequence of fragments, so   *)
(* that Python's `in`, `+`, f-strings and string ordering are computed.    *)
(* A dict is a function whose DOMAIN is the set of keys that are present.  *)
(***************************************************************************)
EXTENDS Integers, Sequences, FiniteSets, TLC

\* ------------------------------------------------------------------ bounds
\* number of timestamp-named child prefixes a bucket may hold
MaxStamps == 3
\* number of objects in the bucket when process_data is the entry point
MaxProcObjects == 1
\* status reads of one wait_for_matching_job call that the model follows
MaxPolls == 3
\* calls of SnowflakeService methods one behaviour makes
MaxSfCalls == 3
\* number of load calls one behaviour makes
MaxLoads == 2
\* size of the largest job output handed to load_matched_records, in batches
MaxBatches == 2

\* --------------------------------------------------------- Python helpers
None == [some |-> FALSE]
Some(v) == [some |-> TRUE, val |-> v]

\* dict.get(key, default)
Get(d, k, default) == IF k \in DOMAIN d THEN d[k] ELSE default

EmptyDict == [k \in {} |-> 0]

\* truthiness of a str / list / dict value
Truthy(v) == DOMAIN v # {}

Range(s) == {s[i] : i \in 1..Len(s)}

\* characters in code point order
\* ('.' < '/' < digits < ':' < 'A'..'Z' < '_' < 'a'..'z')
Ascii == <<".", "/", "0", "1", "2", "3", "4", "5", "6", "7", "8", "9", ":",
           "A", "B", "C", "D", "E", "F", "G", "H", "I", "J", "K", "L", "M", "N",
           "O", "P", "Q", "R", "S", "T", "U", "V", "W", "X", "Y", "Z", "_",
           "a", "b", "c", "d", "e", "f", "g", "h", "i", "j", "k", "l", "m", "n",
           "o", "p", "q", "r", "s", "t", "u", "v", "w", "x", "y", "z">>

Ord(c) == CHOOSE i \in 1..Len(Ascii) : Ascii[i] = c

\* str.__lt__ : comparison by code point, a proper prefix sorts first
StrLess(a, b) ==
    \E i \in 1..(Len(a) + 1) :
        /\ \A j \in 1..(i - 1) : j <= Len(b) /\ a[j] = b[j]
        /\ \/ i = Len(a) + 1 /\ Len(b) >= i
           \/ i <= Len(a) /\ i <= Len(b) /\ Ord(a[i]) < Ord(b[i])

\* `sub in s` on str
Contains(s, sub) ==
    \E i \in 0..(Len(s) - Len(sub)) : SubSeq(s, i + 1, i + Len(sub)) = sub

StartsWith(s, p) == Len(p) <= Len(s) /\ SubSeq(s, 1, Len(p)) = p

RECURSIVE SortedAsc(_)
SortedAsc(S) ==
    IF S = {} THEN <<>>
    ELSE LET m == CHOOSE x \in S : \A y \in S \ {x} : StrLess(x, y)
         IN <<m>> \o SortedAsc(S \ {m})

Reverse(s) == [i \in 1..Len(s) |-> s[Len(s) + 1 - i]]

\* sorted(xs, reverse=True) on a list of distinct str
SortedReverse(xs) == Reverse(SortedAsc(Range(xs)))

\* [x for x in xs if p in x]
RECURSIVE FilterContains(_, _)
FilterContains(xs, p) ==
    IF xs = <<>> THEN <<>>
    ELSE (IF Contains(Head(xs), p) THEN <<Head(xs)>> ELSE <<>>)
             \o FilterContains(Tail(xs), p)

\* ---------------------------------------------------------------- objects
Digit == <<"0", "1", "2", "3", "4", "5", "6", "7", "8", "9">>

\* strftime %d / %H ... : two digits, zero padded
Pad2(n) == <<Digit[(n \div 10) + 1], Digit[(n % 10) + 1]>>

\* time.strftime("%Y%m%d_%H%M%S") for day d of January 2024, 12:00:00
Stamp(d) == <<"2", "0", "2", "4", "0", "1">> \o Pad2(d) \o <<"_">>
                \o Pad2(12) \o Pad2(0) \o Pad2(0)

StampDays == {5 * n : n \in 1..MaxStamps}

\* settings.s3.prefix
S3Prefix == <<"d", "a", "t", "a", "/">>

JsonFile == <<"a", ".", "j", "s", "o", "n">>
TxtFile == <<"b", ".", "t", "x", "t">>
FileNames == {JsonFile, TxtFile}

\* file_pattern arguments
JsonPattern == <<".", "j", "s", "o", "n">>
TxtPattern == <<".", "t", "x", "t">>
DotPattern == <<".">>
Patterns == {JsonPattern, TxtPattern, DotPattern}

ChildPrefix(d) == S3Prefix \o Stamp(d) \o <<"/">>

FlatKeys == {S3Prefix \o f : f \in FileNames}
StampKeys == {ChildPrefix(d) \o f : d \in StampDays, f \in FileNames}
AllKeys == FlatKeys \cup StampKeys

\* botocore ClientErrors raised by a failing list_objects_v2 call: the bucket
\* is missing, or the caller is not allowed to list it
StorageError == [type |-> "ClientError", msg |-> <<"NoSuchBucket">>]
AuthError == [type |-> "ClientError", msg |-> <<"AccessDenied">>]
StorageErrors == {StorageError, AuthError}
NoError == [type |-> "none", msg |-> <<>>]

VARIABLES
    bucket,      \* keys of the objects in settings.s3.bucket
    s3Calls,     \* list_objects_v2 calls received by the storage service
    flPc,        \* position inside find_latest_path
    flBase,      \* its base_prefix argument
    flPattern,   \* its file_pattern argument
    flSorted,    \* its sorted_prefixes local
    flIdx,       \* index of the for loop over sorted_prefixes
    flResult,    \* its return value
    flError,     \* the exception that left it
    entry,       \* the function the caller invokes
    svcJobs,     \* matching service: job id -> what get_matching_job answers
    svcCalls,    \* operations the matching service received
    pdPc,        \* position inside process_data
    pdArgs,      \* its dry_run, wait and input_uri arguments
    pdInputFile, \* its input_file local
    pdOutputPrefix, \* its output_prefix local
    pdJobId,     \* its job_id local
    pdResult,    \* the ProcessingResult it returns
    pdError,     \* the exception that left it
    wPc,         \* position inside wait_for_matching_job
    wJobId,      \* its job_id argument
    wInterval,   \* its check_interval argument
    wTrace,      \* its status reads and sleeps, in order
    wJobInfo,    \* the job_info it returns
    wError,      \* the exception that left it
    s3Data,      \* body of each object in the bucket
    s3Gets,      \* get_object calls received by the storage service
    s3Puts,      \* put_object calls received by the storage service
    whColumns,   \* warehouse: columns of the target table, None when absent
    whRows,      \* warehouse: rows of the target table, in insertion order
    whLog,       \* operations the warehouse driver received
    whConnOpen,  \* warehouse: ids of the connections that are open
    whNextConn,  \* warehouse: id the next connection gets
    sfConnection, \* SnowflakeService.connection
    sfCursor,    \* SnowflakeService.cursor
    ldPc,        \* position inside load_records
    ldArgs,      \* its s3_key and dry_run arguments
    ldKey,       \* its s3_key local
    ldRecords,   \* its records local
    ldResult,    \* the LoadingResult it returns
    ldError,     \* the exception that left it
    ldEvents,    \* the events it passed to log_event, in order
    ldBase,      \* length of the driver log when it was called
    lmPc,        \* position inside load_matched_records
    lmRecords,   \* its records argument
    lmI,         \* its loop variable i
    lmLoaded,    \* its loaded_count local
    lmResult,    \* its return value
    lmError,     \* the exception that left it
    lmCalls,     \* the calls of load_matched_records so far
    loads,       \* number of loads started so far
    mgPc,        \* position inside load_data of the MERGE loader
    mgArgs,      \* its s3_path and dry_run arguments
    mgTemp,      \* rows of the temporary table of its session
    mgResult,    \* the dict it returns
    mgClock,     \* what CURRENT_TIMESTAMP() last answered
    mgAfter,     \* the target table after each load that returned success
    plPc,        \* position inside run_pipeline
    plArgs,      \* its dry_run and wait options
    plStages,    \* the stage calls it made and how each ended, in order
    plExtract,   \* its extract_result local
    plExit,      \* the exit code it ended with
    environ,     \* the settings the process environment configures
    settings,    \* the settings local of run_pipeline
    plEcho,      \* what the settings validators wrote to stderr
    plSeen,      \* the settings as they were at each stage call, in order
    exPc,        \* position inside extract_data
    exArgs,      \* its settings and dry_run arguments
    exResult,    \* the ExtractionResult it returns
    lambdaCalls, \* invocations of a Lambda handler: status read and answer
    sfCalls      \* calls of SnowflakeService methods and how each ended

findVars == <<bucket, s3Calls, flPc, flBase, flPattern, flSorted, flIdx, flResult, flError>>
svcVars == <<svcJobs, svcCalls>>
pdVars == <<pdPc, pdArgs, pdInputFile, pdOutputPrefix, pdJobId, pdResult, pdError>>
waitVars == <<wPc, wJobId, wInterval, wTrace, wJobInfo, wError>>
objVars == <<s3Data, s3Gets, s3Puts>>
whVars == <<whColumns, whRows, whLog, whConnOpen, whNextConn>>
sfVars == <<sfConnection, sfCursor>>
ldVars == <<ldPc, ldArgs, ldKey, ldRecords, ldResult, ldError, ldEvents, ldBase>>
lmVars == <<lmPc, lmRecords, lmI, lmLoaded, lmResult, lmError, lmCalls>>
mgVars == <<mgPc, mgArgs, mgTemp, mgResult, mgClock, mgAfter>>
plVars == <<plPc, plArgs, plStages, plExtract, plExit, environ, settings, plEcho, plSeen>>
exVars == <<exPc, exArgs, exResult>>
histVars == <<lambdaCalls, sfCalls>>
\* everything outside the processing workflow
extVars == <<objVars, whVars, sfVars, ldVars, lmVars, loads, mgVars, plVars, exVars, histVars>>
vars == <<findVars, entry, svcVars, pdVars, waitVars, extVars>>

\* ------------------------------------------------------- storage service
\* position of the first occurrence of delimiter in s, 0 when absent
FirstIndex(s, delimiter) ==
    IF Contains(s, delimiter)
    THEN CHOOSE i \in 1..Len(s) :
            /\ SubSeq(s, i, i + Len(delimiter) - 1) = delimiter
            /\ \A j \in 1..(i - 1) : SubSeq(s, j, j + Len(delimiter) - 1) # delimiter
    ELSE 0

\* S3 ListObjectsV2: keys in ascending order; keys that hold the delimiter
\* after the prefix are rolled up into CommonPrefixes; an empty part is
\* left out of the response
S3ListObjectsV2(b, prefix, delimiter) ==
    LET under == {k \in b : StartsWith(k, prefix)}
        rest(k) == SubSeq(k, Len(prefix) + 1, Len(k))
        rolled(k) == delimiter # <<>> /\ Contains(rest(k), delimiter)
        common(k) == SubSeq(k, 1, Len(prefix) + FirstIndex(rest(k), delimiter)
                                     + Len(delimiter) - 1)
        cps == SortedAsc({common(k) : k \in {x \in under : rolled(x)}})
        keys == SortedAsc({k \in under : ~rolled(k)})
        cpPart == IF cps = <<>> THEN EmptyDict
                  ELSE "CommonPrefixes" :> [i \in 1..Len(cps) |-> [Prefix |-> cps[i]]]
        ctPart == IF keys = <<>> THEN EmptyDict
                  ELSE "Contents" :> [i \in 1..Len(keys) |-> [Key |-> keys[i]]]
    IN cpPart @@ ctPart

\* S3Service.list_objects
list_objects(b, prefix, delimiter) ==
    LET response == S3ListObjectsV2(b, prefix, delimiter)
        cp == Get(response, "CommonPrefixes", <<>>)
        ct == Get(response, "Contents", <<>>)
    IN [prefixes |-> [i \in 1..Len(cp) |-> cp[i].Prefix],
        files |-> [i \in 1..Len(ct) |-> ct[i].Key]]

\* one list_objects_v2 call as the storage service saw it; ok: it was answered
ListCall(prefix, delimiter, ok) == [Prefix |-> prefix, Delimiter |-> delimiter, ok |-> ok]

\* a list_objects_v2 call the storage service answered with the error err
FailedListCall(prefix, delimiter, err) ==
    [Prefix |-> prefix, Delimiter |-> delimiter, ok |-> FALSE, error |-> err]

\* matching_files[0] if matching_files else None
FirstOrNone(xs) == IF xs # <<>> THEN Some(xs[1]) ELSE None

\* ------------------------------------------------------ find_latest_path
\* the call itself
CallFindLatestPath(base, pattern) ==
    /\ entry = "find_latest_path"
    /\ flPc = "idle"
    /\ flPc' = "list_base"
    /\ flBase' = base
    /\ flPattern' = pattern
    /\ UNCHANGED <<bucket, s3Calls, flSorted, flIdx, flResult, flError>>
    /\ UNCHANGED <<entry, svcVars, pdVars, waitVars>>
    /\ UNCHANGED extVars

\* FindListBase that gives up when there are no child prefixes
FindListBase_NoFlat ==
    /\ flPc = "list_base"
    /\ s3Calls' = Append(s3Calls, ListCall(flBase, <<"/">>, TRUE))
    /\ LET result == list_objects(bucket, flBase, <<"/">>)
           prefixes == result.prefixes
       IN IF prefixes = <<>>
          THEN /\ flResult' = None
               /\ flPc' = "returned"
               /\ UNCHANGED <<flSorted, flIdx>>
          ELSE /\ flSorted' = SortedReverse(prefixes)
               /\ flIdx' = 1
               /\ flPc' = "scan"
               /\ UNCHANGED flResult
    /\ UNCHANGED <<bucket, flBase, flPattern, flError>>
    /\ UNCHANGED <<entry, svcVars, pdVars, waitVars>>
    /\ UNCHANGED extVars

\* result = self.list_objects(base_prefix, delimiter="/") and the branch on
\* `not prefixes`
FindListBase ==
    /\ flPc = "list_base"
    /\ s3Calls' = Append(s3Calls, ListCall(flBase, <<"/">>, TRUE))
    /\ LET result == list_objects(bucket, flBase, <<"/">>)
           prefixes == result.prefixes
       IN IF prefixes = <<>>
          THEN /\ flResult' = FirstOrNone(FilterContains(result.files, flPattern))
               /\ flPc' = "returned"
               /\ UNCHANGED <<flSorted, flIdx>>
          ELSE /\ flSorted' = SortedReverse(prefixes)
               /\ flIdx' = 1
               /\ flPc' = "scan"
               /\ UNCHANGED flResult
    /\ UNCHANGED <<bucket, flBase, flPattern, flError>>
    /\ UNCHANGED <<entry, svcVars, pdVars, waitVars>>
    /\ UNCHANGED extVars

\* FindScanPrefix that looks into the latest prefix only
FindScanPrefix_NoFallback ==
    /\ flPc = "scan"
    /\ flIdx <= Len(flSorted)
    /\ s3Calls' = Append(s3Calls, ListCall(flSorted[flIdx], <<>>, TRUE))
    /\ LET prefix_result == list_objects(bucket, flSorted[flIdx], <<>>)
           matching_files == FilterContains(prefix_result.files, flPattern)
       IN /\ flResult' = FirstOrNone(matching_files)
          /\ flPc' = "returned"
          /\ UNCHANGED flIdx
    /\ UNCHANGED <<bucket, flBase, flPattern, flSorted, flError>>
    /\ UNCHANGED <<entry, svcVars, pdVars, waitVars>>
    /\ UNCHANGED extVars

\* one iteration of `for prefix in sorted_prefixes`
FindScanPrefix ==
    /\ flPc = "scan"
    /\ flIdx <= Len(flSorted)
    /\ s3Calls' = Append(s3Calls, ListCall(flSorted[flIdx], <<>>, TRUE))
    /\ LET prefix_result == list_objects(bucket, flSorted[flIdx], <<>>)
           matching_files == FilterContains(prefix_result.files, flPattern)
       IN IF matching_files # <<>>
          THEN /\ flResult' = Some(matching_files[1])
               /\ flPc' = "returned"
               /\ UNCHANGED flIdx
          ELSE /\ flIdx' = flIdx + 1
               /\ UNCHANGED <<flResult, flPc>>
    /\ UNCHANGED <<bucket, flBase, flPattern, flSorted, flError>>
    /\ UNCHANGED <<entry, svcVars, pdVars, waitVars>>
    /\ UNCHANGED extVars

\* FindNoMatch that raises instead of returning None
FindNoMatch_Raises ==
    /\ flPc = "scan"
    /\ flIdx > Len(flSorted)
    /\ flError' = [type |-> "ValueError", msg |-> <<"no matching file">>]
    /\ flPc' = "raised"
    /\ UNCHANGED <<bucket, s3Calls, flBase, flPattern, flSorted, flIdx, flResult>>
    /\ UNCHANGED <<entry, svcVars, pdVars, waitVars>>
    /\ UNCHANGED extVars

\* the loop ran out of prefixes: log and return None
FindNoMatch ==
    /\ flPc = "scan"
    /\ flIdx > Len(flSorted)
    /\ flResult' = None
    /\ flPc' = "returned"
    /\ UNCHANGED <<bucket, s3Calls, flBase, flPattern, flSorted, flIdx, flError>>
    /\ UNCHANGED <<entry, svcVars, pdVars, waitVars>>
    /\ UNCHANGED extVars

\* FindListFails that takes a failed listing for an empty one: returns None
FindListFails_NotFound(err) ==
    /\ \/ flPc = "list_base"
       \/ flPc = "scan" /\ flIdx <= Len(flSorted)
    /\ s3Calls' = Append(s3Calls,
                         IF flPc = "list_base" THEN FailedListCall(flBase, <<"/">>, err)
                         ELSE FailedListCall(flSorted[flIdx], <<>>, err))
    /\ flResult' = None
    /\ flPc' = "returned"
    /\ UNCHANGED <<bucket, flBase, flPattern, flSorted, flIdx, flError>>
    /\ UNCHANGED <<entry, svcVars, pdVars, waitVars>>
    /\ UNCHANGED extVars

\* a list_objects_v2 call raises err: handle_exceptions around list_objects
\* and around find_latest_path logs it and re-raises it
FindListFails(err) ==
    /\ \/ flPc = "list_base"
       \/ flPc = "scan" /\ flIdx <= Len(flSorted)
    /\ s3Calls' = Append(s3Calls,
                         IF flPc = "list_base" THEN FailedListCall(flBase, <<"/">>, err)
                         ELSE FailedListCall(flSorted[flIdx], <<>>, err))
    /\ flError' = err
    /\ flPc' = "raised"
    /\ UNCHANGED <<bucket, flBase, flPattern, flSorted, flIdx, flResult>>
    /\ UNCHANGED <<entry, svcVars, pdVars, waitVars>>
    /\ UNCHANGED extVars

\* ------------------------------------------------------ matching service
\* The service holds the jobs and answers every status read with the job's
\* current record; a submission may be rejected.
NonTerminal == {"SUBMITTED", "RUNNING", "IN_PROGRESS"}
Terminal == {"SUCCEEDED", "FAILED", "CANCELLED"}

Boom == <<"boom">>
Bang == <<"bang">>

\* what the service may report with a finished job; any part may be absent
Statistics == "statistics" :> [inputRecordCount |-> 100, matchedRecordCount |-> 80]
TerminalParts(status) ==
    IF status = "SUCCEEDED"
    THEN {EmptyDict, "statistics" :> EmptyDict, Statistics}
    ELSE {EmptyDict, "errors" :> <<>>, "errors" :> <<Boom>>, "errors" :> <<Boom, Bang>>}

\* the outputSourceConfig the service echoes for a job writing to key
OutputConfigs(key) ==
    {EmptyDict,
     "outputSourceConfig" :> [s3OutputConfig |-> EmptyDict],
     "outputSourceConfig" :> [s3OutputConfig |-> [key |-> key]]}

\* operations as the matching service saw them; ok: the service accepted it
StartCall(input, output, ok) ==
    [op |-> "start_matching_job", input |-> input, output |-> output, ok |-> ok]
GetCall(id) == [op |-> "get_matching_job", jobId |-> id, ok |-> TRUE]

\* the job moves on by itself: SUBMITTED, then running, then a terminal state
Rank(status) ==
    IF status = "SUBMITTED" THEN 0 ELSE IF status \in NonTerminal THEN 1 ELSE 2

SvcAdvance(id, status, parts) ==
    /\ id \in DOMAIN svcJobs
    /\ Rank(svcJobs[id]["jobStatus"]) < Rank(status)
    /\ parts \in (IF status \in Terminal THEN TerminalParts(status) ELSE {EmptyDict})
    /\ svcJobs' = [svcJobs EXCEPT ![id] = ("jobStatus" :> status) @@ parts @@ svcJobs[id]]
    /\ UNCHANGED <<findVars, entry, svcCalls, pdVars, waitVars>>
    /\ UNCHANGED extVars

\* get_job_status without the statistics entry, reading the output location
\* from output.s3Path only when it is there
get_job_status_NoStatistics(response) ==
    IF "output" \in DOMAIN response
    THEN [status |-> response["jobStatus"],
          output_location |-> Get(response["output"], "s3Path", <<>>),
          errors |-> Get(response, "errors", <<>>)]
    ELSE [status |-> response["jobStatus"],
          errors |-> Get(response, "errors", <<>>)]

\* EntityResolutionService.get_job_status applied to the service's response
get_job_status(response) ==
    [status |-> response["jobStatus"],
     output_location |->
        Get(Get(Get(response, "outputSourceConfig", EmptyDict),
                "s3OutputConfig", EmptyDict), "key", <<>>),
     statistics |-> Get(response, "statistics", EmptyDict),
     errors |-> Get(response, "errors", <<>>)]

\* ------------------------------------------------- wait_for_matching_job
DefaultCheckInterval == 30

Reads(trace) == SelectSeq(trace, LAMBDA e : e.op = "get_job_status")
Sleeps(trace) == SelectSeq(trace, LAMBDA e : e.op = "sleep")

\* the SUCCEEDED branch: the job_info that is returned
SucceededJobInfo(job_info) ==
    LET top == IF "output_location" \in DOMAIN job_info
               THEN Some(job_info["output_location"]) ELSE None
        nested == Get(Get(Get(job_info, "outputSourceConfig", EmptyDict),
                          "s3OutputConfig", EmptyDict), "key", <<>>)
        output_location ==
            IF ~(top.some /\ Truthy(top.val)) /\ "outputSourceConfig" \in DOMAIN job_info
            THEN Some(nested) ELSE top
    IN IF "output_location" \notin DOMAIN job_info
          /\ output_location.some /\ Truthy(output_location.val)
       THEN ("output_location" :> output_location.val) @@ job_info
       ELSE job_info

\* FailedError reporting the last error of the list instead of the first
FailedError_LastError(job_info) ==
    LET errors == Get(job_info, "errors", <<<<"Unknown error">>>>)
    IN IF errors = <<>>
       THEN [type |-> "IndexError", msg |-> <<"list index out of range">>]
       ELSE [type |-> "RuntimeError",
             msg |-> <<"Matching job failed: ">> \o errors[Len(errors)]]

\* the FAILED branch: the exception that is raised
FailedError(job_info) ==
    LET errors == Get(job_info, "errors", <<<<"Unknown error">>>>)
    IN IF errors = <<>>
       THEN [type |-> "IndexError", msg |-> <<"list index out of range">>]
       ELSE [type |-> "RuntimeError", msg |-> <<"Matching job failed: ">> \o errors[1]]

\* the CANCELLED branch
CancelledError == [type |-> "RuntimeError", msg |-> <<"Matching job was cancelled">>]

\* WaitPoll that gives up with a timeout at the second non-terminal read
WaitPoll_Timeout ==
    /\ wPc = "poll"
    /\ Len(Reads(wTrace)) < MaxPolls
    /\ svcCalls' = Append(svcCalls, GetCall(wJobId))
    /\ LET job_info == get_job_status(svcJobs[wJobId])
           status == job_info["status"]
       IN /\ wTrace' = Append(wTrace, [op |-> "get_job_status", status |-> status])
          /\ IF status = "SUCCEEDED"
             THEN /\ wJobInfo' = SucceededJobInfo(job_info)
                  /\ wPc' = "returned"
                  /\ UNCHANGED wError
             ELSE IF status = "FAILED"
             THEN /\ wError' = FailedError(job_info)
                  /\ wPc' = "raised"
                  /\ UNCHANGED wJobInfo
             ELSE IF status = "CANCELLED"
             THEN /\ wError' = CancelledError
                  /\ wPc' = "raised"
                  /\ UNCHANGED wJobInfo
             ELSE IF Len(Reads(wTrace)) >= 1
             THEN /\ wError' = [type |-> "TimeoutError", msg |-> <<"timed out">>]
                  /\ wPc' = "raised"
                  /\ UNCHANGED wJobInfo
             ELSE /\ wPc' = "sleep"
                  /\ UNCHANGED <<wJobInfo, wError>>
    /\ UNCHANGED <<findVars, entry, svcJobs, pdVars, wJobId, wInterval>>
    /\ UNCHANGED extVars

\* WaitPoll that cancels a job it finds still running
WaitPoll_Cancels ==
    /\ wPc = "poll"
    /\ Len(Reads(wTrace)) < MaxPolls
    /\ LET job_info == get_job_status(svcJobs[wJobId])
           status == job_info["status"]
       IN /\ wTrace' = Append(wTrace, [op |-> "get_job_status", status |-> status])
          /\ IF status = "SUCCEEDED"
             THEN /\ wJobInfo' = SucceededJobInfo(job_info)
                  /\ wPc' = "returned"
                  /\ svcCalls' = Append(svcCalls, GetCall(wJobId))
                  /\ UNCHANGED <<wError, svcJobs>>
             ELSE IF status = "FAILED"
             THEN /\ wError' = FailedError(job_info)
                  /\ wPc' = "raised"
                  /\ svcCalls' = Append(svcCalls, GetCall(wJobId))
                  /\ UNCHANGED <<wJobInfo, svcJobs>>
             ELSE IF status = "CANCELLED"
             THEN /\ wError' = CancelledError
                  /\ wPc' = "raised"
                  /\ svcCalls' = Append(svcCalls, GetCall(wJobId))
                  /\ UNCHANGED <<wJobInfo, svcJobs>>
             ELSE /\ wPc' = "sleep"
                  /\ svcCalls' = Append(svcCalls, GetCall(wJobId))
                  /\ svcJobs' = [svcJobs EXCEPT ![wJobId] =
                                    ("jobStatus" :> "CANCELLED") @@ svcJobs[wJobId]]
                  /\ UNCHANGED <<wJobInfo, wError>>
    /\ UNCHANGED <<findVars, entry, pdVars, wJobId, wInterval>>
    /\ UNCHANGED extVars

\* job_info = er_service.get_job_status(job_id) and the branch on status
WaitPoll ==
    /\ wPc = "poll"
    /\ Len(Reads(wTrace)) < MaxPolls
    /\ svcCalls' = Append(svcCalls, GetCall(wJobId))
    /\ LET job_info == get_job_status(svcJobs[wJobId])
           status == job_info["status"]
       IN /\ wTrace' = Append(wTrace, [op |-> "get_job_status", status |-> status])
          /\ IF status = "SUCCEEDED"
             THEN /\ wJobInfo' = SucceededJobInfo(job_info)
                  /\ wPc' = "returned"
                  /\ UNCHANGED wError
             ELSE IF status = "FAILED"
             THEN /\ wError' = FailedError(job_info)
                  /\ wPc' = "raised"
                  /\ UNCHANGED wJobInfo
             ELSE IF status = "CANCELLED"
             THEN /\ wError' = CancelledError
                  /\ wPc' = "raised"
                  /\ UNCHANGED wJobInfo
             ELSE /\ wPc' = "sleep"
                  /\ UNCHANGED <<wJobInfo, wError>>
    /\ UNCHANGED <<findVars, entry, svcJobs, pdVars, wJobId, wInterval>>
    /\ UNCHANGED extVars

\* WaitSleep with a growing interval (backoff)
WaitSleep_Backoff ==
    /\ wPc = "sleep"
    /\ wTrace' = Append(wTrace, [op |-> "sleep",
                                 seconds |-> wInterval * (Len(Sleeps(wTrace)) + 1)])
    /\ wPc' = "poll"
    /\ UNCHANGED <<findVars, entry, svcVars, pdVars, wJobId, wInterval, wJobInfo, wError>>
    /\ UNCHANGED extVars

\* time.sleep(check_interval), then around the loop
WaitSleep ==
    /\ wPc = "sleep"
    /\ wTrace' = Append(wTrace, [op |-> "sleep", seconds |-> wInterval])
    /\ wPc' = "poll"
    /\ UNCHANGED <<findVars, entry, svcVars, pdVars, wJobId, wInterval, wJobInfo, wError>>
    /\ UNCHANGED extVars

\* wait_for_matching_job called directly on a job the service already holds
CallWaitForMatchingJob(id, check_interval) ==
    /\ entry = "wait_for_matching_job"
    /\ wPc = "idle"
    /\ id \in DOMAIN svcJobs
    /\ wJobId' = id
    /\ wInterval' = check_interval
    /\ wPc' = "poll"
    /\ UNCHANGED <<findVars, entry, svcVars, pdVars, wTrace, wJobInfo, wError>>
    /\ UNCHANGED extVars

\* ----------------------------------------------------------- process_data
\* settings.s3.bucket
S3Bucket == <<"bkt">>

\* the input_uri argument when the caller gives one
InputUri == <<"s3://bkt/in.json">>

\* the day time.strftime reads: after every stamp already in the bucket
NowDay == 5 * MaxStamps + 1

\* f"{settings.s3.prefix}output/{output_file or timestamp}/" with no output_file
OutputPrefix ==
    S3Prefix \o <<"o", "u", "t", "p", "u", "t", "/">> \o Stamp(NowDay) \o <<"/">>

\* ProcessingResult.__init__
ProcessingResult(status, job_id, input_records, matched_records, s3_bucket, s3_key) ==
    [status |-> status,
     job_id |-> job_id,
     input_records |-> input_records,
     matched_records |-> matched_records,
     s3_bucket |-> s3_bucket,
     s3_key |-> s3_key,
     success |-> (status = "success"),
     output_path |-> IF Truthy(s3_bucket) /\ Truthy(s3_key)
                     THEN <<"s3://">> \o s3_bucket \o <<"/">> \o s3_key ELSE <<>>,
     error_message |-> <<>>]

NoResult == [status |-> "none"]

\* error of a start_matching_job call the service rejects
SubmitError == [type |-> "ClientError", msg |-> <<"ValidationException">>]

NewJobId == "job-1"

CallProcessData(dry_run, wait, input_uri) ==
    /\ entry = "process_data"
    /\ pdPc = "idle"
    /\ pdArgs' = [dry_run |-> dry_run, wait |-> wait, input_uri |-> input_uri]
    /\ pdPc' = "called"
    /\ UNCHANGED <<findVars, entry, svcVars, waitVars>>
    /\ UNCHANGED <<pdInputFile, pdOutputPrefix, pdJobId, pdResult, pdError>>
    /\ UNCHANGED extVars

\* the dry-run return, else `input_uri if input_uri else find_latest_input_path(...)`
PdBegin ==
    /\ pdPc = "called"
    /\ IF pdArgs.dry_run
       THEN /\ pdResult' = ProcessingResult("dry_run", "dry-run-job-id", 0, 0, S3Bucket,
                               S3Prefix \o <<"/dry-run-output/">>)
            /\ pdPc' = "returned"
            /\ UNCHANGED <<pdInputFile, flPc, flBase, flPattern>>
       ELSE IF pdArgs.input_uri.some /\ Truthy(pdArgs.input_uri.val)
       THEN /\ pdInputFile' = pdArgs.input_uri
            /\ pdPc' = "start_job"
            /\ UNCHANGED <<pdResult, flPc, flBase, flPattern>>
       ELSE /\ flPc' = "list_base"
            /\ flBase' = <<>>
            /\ flPattern' = JsonPattern
            /\ pdPc' = "finding"
            /\ UNCHANGED <<pdResult, pdInputFile>>
    /\ UNCHANGED <<bucket, s3Calls, flSorted, flIdx, flResult, flError>>
    /\ UNCHANGED <<entry, svcVars, waitVars, pdArgs, pdOutputPrefix, pdJobId, pdError>>
    /\ UNCHANGED extVars

\* find_latest_input_path came back: `if not input_file: raise ValueError`
PdFound ==
    /\ pdPc = "finding"
    /\ flPc \in {"returned", "raised"}
    /\ IF flPc = "raised"
       THEN /\ pdError' = flError
            /\ pdPc' = "raised"
            /\ UNCHANGED pdInputFile
       ELSE IF ~(flResult.some /\ Truthy(flResult.val))
       THEN /\ pdError' = [type |-> "ValueError", msg |-> <<"No input data found">>]
            /\ pdPc' = "raised"
            /\ UNCHANGED pdInputFile
       ELSE /\ pdInputFile' = flResult
            /\ pdPc' = "start_job"
            /\ UNCHANGED pdError
    /\ UNCHANGED <<findVars, entry, svcVars, waitVars>>
    /\ UNCHANGED <<pdArgs, pdOutputPrefix, pdJobId, pdResult>>
    /\ UNCHANGED extVars

\* job_id = start_matching_job(er_service, input_file, output_prefix) succeeds;
\* then either the `if not wait` return or the call of wait_for_matching_job
PdStartJob(config) ==
    /\ pdPc = "start_job"
    /\ config \in OutputConfigs(OutputPrefix)
    /\ pdOutputPrefix' = OutputPrefix
    /\ svcCalls' = Append(svcCalls, StartCall(pdInputFile.val, OutputPrefix, TRUE))
    /\ svcJobs' = (NewJobId :> (("jobStatus" :> "SUBMITTED") @@ config)) @@ svcJobs
    /\ pdJobId' = NewJobId
    /\ IF ~pdArgs.wait
       THEN /\ pdResult' = ProcessingResult("submitted", NewJobId, 0, 0, S3Bucket, OutputPrefix)
            /\ pdPc' = "returned"
            /\ UNCHANGED <<wPc, wJobId, wInterval>>
       ELSE /\ wJobId' = NewJobId
            /\ wInterval' = DefaultCheckInterval
            /\ wPc' = "poll"
            /\ pdPc' = "waiting"
            /\ UNCHANGED pdResult
    /\ UNCHANGED <<findVars, entry, pdArgs, pdInputFile, pdError, wTrace, wJobInfo, wError>>
    /\ UNCHANGED extVars

\* PdStartJobFails that swallows the error and goes back to submit again
PdStartJobFails_Retry ==
    /\ pdPc = "start_job"
    /\ Len(svcCalls) < 2
    /\ pdOutputPrefix' = OutputPrefix
    /\ svcCalls' = Append(svcCalls, StartCall(pdInputFile.val, OutputPrefix, FALSE))
    /\ UNCHANGED <<findVars, entry, svcJobs, waitVars>>
    /\ UNCHANGED <<pdPc, pdError, pdArgs, pdInputFile, pdJobId, pdResult>>
    /\ UNCHANGED extVars

\* the service rejects the submission: the error leaves process_data
PdStartJobFails ==
    /\ pdPc = "start_job"
    /\ pdOutputPrefix' = OutputPrefix
    /\ svcCalls' = Append(svcCalls, StartCall(pdInputFile.val, OutputPrefix, FALSE))
    /\ pdError' = SubmitError
    /\ pdPc' = "raised"
    /\ UNCHANGED <<findVars, entry, svcJobs, waitVars>>
    /\ UNCHANGED <<pdArgs, pdInputFile, pdJobId, pdResult>>
    /\ UNCHANGED extVars

\* wait_for_matching_job came back: read the statistics, build the result
PdAfterWait ==
    /\ pdPc = "waiting"
    /\ wPc \in {"returned", "raised"}
    /\ IF wPc = "raised"
       THEN /\ pdError' = wError
            /\ pdPc' = "raised"
            /\ UNCHANGED pdResult
       ELSE IF "statistics" \notin DOMAIN wJobInfo
       THEN /\ pdError' = [type |-> "KeyError", msg |-> <<"statistics">>]
            /\ pdPc' = "raised"
            /\ UNCHANGED pdResult
       ELSE IF "output_location" \notin DOMAIN wJobInfo
       THEN /\ pdError' = [type |-> "KeyError", msg |-> <<"output_location">>]
            /\ pdPc' = "raised"
            /\ UNCHANGED pdResult
       ELSE /\ pdResult' = ProcessingResult("success", pdJobId,
                               Get(wJobInfo["statistics"], "inputRecordCount", 0),
                               Get(wJobInfo["statistics"], "matchedRecordCount", 0),
                               S3Bucket, wJobInfo["output_location"])
            /\ pdPc' = "returned"
            /\ UNCHANGED pdError
    /\ UNCHANGED <<findVars, entry, svcVars, waitVars>>
    /\ UNCHANGED <<pdArgs, pdInputFile, pdOutputPrefix, pdJobId>>
    /\ UNCHANGED extVars

\* ------------------------------------------------------- text of the loader
\* str.lower()
Lower(s) ==
    LET upper == <<"A", "B", "C", "D", "E", "F", "G", "H", "I", "J", "K", "L", "M",
                   "N", "O", "P", "Q", "R", "S", "T", "U", "V", "W", "X", "Y", "Z">>
        lower == <<"a", "b", "c", "d", "e", "f", "g", "h", "i", "j", "k", "l", "m",
                   "n", "o", "p", "q", "r", "s", "t", "u", "v", "w", "x", "y", "z">>
    IN [i \in 1..Len(s) |->
           IF \E j \in 1..26 : upper[j] = s[i]
           THEN lower[CHOOSE j \in 1..26 : upper[j] = s[i]]
           ELSE s[i]]

\* settings.entity_resolution.entity_attributes
AttrId == <<"i", "d">>
AttrName == <<"n", "a", "m", "e">>
EntityAttributes == <<AttrId, AttrName>>

MATCH_ID == <<"M", "A", "T", "C", "H", "_", "I", "D">>
MATCH_SCORE == <<"M", "A", "T", "C", "H", "_", "S", "C", "O", "R", "E">>
LOAD_TIMESTAMP ==
    <<"L", "O", "A", "D", "_", "T", "I", "M", "E", "S", "T", "A", "M", "P">>

\* the columns of CREATE TABLE IF NOT EXISTS in create_target_table
CreatedColumns ==
    Range(EntityAttributes)
    \cup {MATCH_ID,
          <<"C", "O", "N", "F", "I", "D", "E", "N", "C", "E", "_", "S", "C", "O", "R", "E">>,
          <<"M", "A", "T", "C", "H", "_", "T", "Y", "P", "E">>,
          LOAD_TIMESTAMP}

\* columns_to_use of load_matched_records: the INSERT column list
ColumnsToUse == EntityAttributes \o <<MATCH_ID, MATCH_SCORE>>

\* a target table that was set up with the columns the INSERT names
InsertableColumns == Range(ColumnsToUse) \cup {LOAD_TIMESTAMP}

\* keys of the records the matching job writes
KeyMatchId == <<"m", "a", "t", "c", "h", "I", "d">>
KeyMatchScore == <<"m", "a", "t", "c", "h", "S", "c", "o", "r", "e">>

\* a dict entry; a dict is the sequence of its entries in insertion order
Item(k, v) == [k |-> k, v |-> v]
Dict(items) == [items |-> items]

\* a JSON value that is not an object
Scalar == [scalar |-> "5"]

IsDict(value) == "items" \in DOMAIN value

Keys(record) == {record.items[i].k : i \in 1..Len(record.items)}

\* the record of the loader's tests: camelCase match keys
CamelRecord ==
    Dict(<<Item(AttrId, "1"), Item(AttrName, "John"),
      Item(KeyMatchId, "m1"), Item(KeyMatchScore, "0.9")>>)
\* the same record with the match keys in other letter cases
CamelCaseRecord ==
    Dict(<<Item(AttrId, "1"), Item(AttrName, "John"),
      Item(<<"M", "A", "T", "C", "H", "I", "D">>, "m1"),
      Item(<<"m", "a", "t", "c", "h", "s", "c", "o", "r", "e">>, "0.9")>>)
\* match keys spelled like the target columns, in mixed case
SnakeRecord ==
    Dict(<<Item(AttrId, "2"), Item(AttrName, "Jane"),
      Item(<<"m", "a", "t", "c", "h", "_", "i", "d">>, "m2"),
      Item(<<"M", "a", "t", "c", "h", "_", "S", "c", "o", "r", "e">>, "0.8")>>)
\* a record without name and without match keys
PartialRecord == Dict(<<Item(AttrId, "3")>>)
\* two keys that differ only in letter case, none of them spelled as the column
TwoCaseRecord == Dict(<<Item(<<"I", "d">>, "4"), Item(<<"I", "D">>, "5")>>)

\* the i-th record of a large job output
NumberedRecord(i) == Dict(<<Item(AttrId, ToString(i))>>)

\* the value load_matched_records puts into column col for record: the exact
\* key first, then the first key equal to col ignoring case, else None
ColumnValue(record, col) ==
    LET items == record.items
    IN IF col \in Keys(record)
       THEN Some(items[CHOOSE i \in 1..Len(items) : items[i].k = col].v)
       ELSE IF \E i \in 1..Len(items) : Lower(items[i].k) = Lower(col)
            THEN LET first == CHOOSE i \in 1..Len(items) :
                                 /\ Lower(items[i].k) = Lower(col)
                                 /\ \A j \in 1..(i - 1) : Lower(items[j].k) # Lower(col)
                 IN Some(items[first].v)
            ELSE None

\* the row built for one record
RowOf(record) == [j \in 1..Len(ColumnsToUse) |-> ColumnValue(record, ColumnsToUse[j])]

batch_size == 1000

\* BatchAt with a slice that is one record short
BatchAt_Short(records, i) ==
    SubSeq(records, i + 1, IF i + batch_size - 1 < Len(records) THEN i + batch_size - 1
                           ELSE Len(records))

\* records[i : i + batch_size] for the 0-based i of the loop
BatchAt(records, i) ==
    SubSeq(records, i + 1, IF i + batch_size < Len(records) THEN i + batch_size
                           ELSE Len(records))

\* values: the rows of one batch
ValuesOf(batch) == [r \in 1..Len(batch) |-> RowOf(batch[r])]

\* ------------------------------------------------------------- warehouse
\* snowflake.connector errors: a statement the warehouse rejects, and a
\* failure of the connection or the service
ProgrammingError(msg) == [type |-> "ProgrammingError", msg |-> msg]
OperationalError(msg) == [type |-> "OperationalError", msg |-> msg]

InsertFailed == OperationalError(<<"Insert failed">>)
ConnectFailed == OperationalError(<<"Connection failed">>)

\* faults the warehouse may answer a statement with; NoError: none
CreateFaults ==
    {NoError,
     ProgrammingError(<<"Table creation failed">>),
     OperationalError(<<"connection lost">>)}
InsertFaults == {NoError, InsertFailed}

\* the error an INSERT naming ColumnsToUse meets in the target table as it is
InsertRejection(columns) ==
    IF ~columns.some THEN ProgrammingError(<<"table does not exist">>)
    ELSE IF ~(Range(ColumnsToUse) \subseteq columns.val)
    THEN ProgrammingError(<<"invalid identifier">>)
    ELSE NoError

\* the table row an inserted row of values becomes: the named columns get
\* the values, every other column is NULL
StoredRow(columns, row) ==
    [c \in columns |->
        IF c \in Range(ColumnsToUse)
        THEN row[CHOOSE j \in 1..Len(ColumnsToUse) : ColumnsToUse[j] = c]
        ELSE None]

\* ------------------------------------------------------ SnowflakeService
\* what SnowflakeService.disconnect sends to the driver: close of the cursor
\* when there is one (a failure is logged and swallowed), then close of the
\* connection when there is one
DisconnectLog(cursor, connection, cursorCloseFails) ==
    (IF cursor.some THEN <<[op |-> "cursor.close", ok |-> ~cursorCloseFails]>> ELSE <<>>)
    \o (IF connection.some THEN <<[op |-> "close", conn |-> connection.val]>> ELSE <<>>)

\* SfDisconnect that closes the cursor only
SfDisconnect_KeepsConnection(cursorCloseFails) ==
    /\ whLog' = whLog \o DisconnectLog(sfCursor, None, cursorCloseFails)
    /\ sfCursor' = None
    /\ UNCHANGED <<whConnOpen, sfConnection>>

\* SnowflakeService.disconnect, as __exit__ calls it
SfDisconnect(cursorCloseFails) ==
    /\ whLog' = whLog \o DisconnectLog(sfCursor, sfConnection, cursorCloseFails)
    /\ whConnOpen' = IF sfConnection.some THEN whConnOpen \ {sfConnection.val}
                     ELSE whConnOpen
    /\ sfCursor' = None
    /\ sfConnection' = None

\* ------------------------------------------------- bodies of job outputs
\* A body is the sequence of its lines; a line is blank, a JSON document,
\* text that is not JSON, or (first line only) a JSON array or a broken one.
BlankLine == [t |-> "blank"]
BadLine == [t |-> "bad"]
DocLine(value) == [t |-> "doc", v |-> value]
ArrayLine(values) == [t |-> "array", vs |-> values]
BadArrayLine == [t |-> "badarray"]

Bodies ==
    {<<>>,
     <<BlankLine>>,
     <<DocLine(CamelRecord)>>,
     <<DocLine(SnakeRecord), BlankLine, DocLine(PartialRecord)>>,
     <<DocLine(PartialRecord), BadLine>>,
     <<DocLine(Scalar)>>,
     <<ArrayLine(<<CamelRecord, SnakeRecord>>)>>,
     <<BadArrayLine>>}

\* [line for line in matched_data.splitlines() if line.strip()]
NonBlank(lines) == SelectSeq(lines, LAMBDA l : l.t # "blank")

\* json.loads of the whole body / of every line: the records, or the
\* JSONDecodeError
ParseBody(body) ==
    IF body[1].t \in {"array", "badarray"}
    THEN IF body[1].t = "array" /\ NonBlank(Tail(body)) = <<>>
         THEN [ok |-> TRUE, records |-> body[1].vs]
         ELSE [ok |-> FALSE]
    ELSE LET lines == NonBlank(body)
         IN IF \E i \in 1..Len(lines) : lines[i].t \in {"bad", "badarray"}
            THEN [ok |-> FALSE]
            ELSE [ok |-> TRUE,
                  records |-> [i \in 1..Len(lines) |->
                                  IF lines[i].t = "doc" THEN lines[i].v
                                  ELSE [list |-> lines[i].vs]]]

JSONDecodeError == [type |-> "JSONDecodeError", msg |-> <<"Expecting value">>]
NoSuchKey == [type |-> "ClientError", msg |-> <<"NoSuchKey">>]
AttributeError == [type |-> "AttributeError", msg |-> <<"object has no attribute 'keys'">>]
NotConnected == [type |-> "RuntimeError", msg |-> <<"Snowflake connection is not established">>]

\* one get_object call as the storage service saw it
GetCallS3(key, ok) == [Key |-> key, ok |-> ok]

\* -------------------------------------------------- load_matched_records
\* the call up to the INSERT statement: `if not records: return 0`, then
\* record.keys() of every record
LmStart(records) ==
    /\ lmRecords' = records
    /\ lmI' = 0
    /\ lmLoaded' = 0
    /\ lmCalls' = Append(lmCalls, [records |-> records, base |-> Len(whLog'),
                                   rows |-> Len(whRows')])
    /\ IF records = <<>>
       THEN /\ lmResult' = Some(0)
            /\ lmPc' = "returned"
            /\ lmError' = NoError
       ELSE IF \E i \in 1..Len(records) : ~IsDict(records[i])
       THEN /\ lmError' = AttributeError
            /\ lmPc' = "raised"
            /\ lmResult' = None
       ELSE /\ lmPc' = "loop"
            /\ lmResult' = None
            /\ lmError' = NoError

\* InsertInto that replaces the rows of the table
InsertInto_Overwrite(rows, columns, values) ==
    [r \in 1..Len(values) |-> StoredRow(columns, values[r])]

\* cursor.executemany(insert_sql, values) on a table holding rows
InsertInto(rows, columns, values) ==
    rows \o [r \in 1..Len(values) |-> StoredRow(columns, values[r])]

\* one pass of `for i in range(0, len(records), batch_size)`: build the
\* rows, executemany, commit; after the last pass `return loaded_count`
LmBatch(fault) ==
    /\ lmPc = "loop"
    /\ fault \in InsertFaults
    /\ LET batch == BatchAt(lmRecords, lmI)
           values == ValuesOf(batch)
           rejection == InsertRejection(whColumns)
           err == IF rejection # NoError THEN rejection ELSE fault
       IN IF ~sfConnection.some
          THEN /\ lmError' = NotConnected
               /\ lmPc' = "raised"
               /\ UNCHANGED <<whRows, whLog, lmLoaded, lmI, lmResult>>
          ELSE IF err # NoError
          THEN /\ whLog' = Append(whLog, [op |-> "executemany", rows |-> values,
                                          ok |-> FALSE, error |-> err])
               /\ lmError' = err
               /\ lmPc' = "raised"
               /\ UNCHANGED <<whRows, lmLoaded, lmI, lmResult>>
          ELSE /\ whRows' = InsertInto(whRows, whColumns.val, values)
               /\ whLog' = whLog \o <<[op |-> "executemany", rows |-> values, ok |-> TRUE],
                                      [op |-> "commit"]>>
               /\ lmLoaded' = lmLoaded + Len(batch)
               /\ IF lmI + batch_size < Len(lmRecords)
                  THEN /\ lmI' = lmI + batch_size
                       /\ UNCHANGED <<lmPc, lmResult>>
                  ELSE /\ lmResult' = Some(lmLoaded + Len(batch))
                       /\ lmPc' = "returned"
                       /\ UNCHANGED lmI
               /\ UNCHANGED lmError
    /\ UNCHANGED <<whColumns, whConnOpen, whNextConn, sfVars, lmRecords, lmCalls>>
    /\ UNCHANGED <<ldVars, objVars, loads>>
    /\ UNCHANGED <<findVars, entry, svcVars, pdVars, waitVars>>
    /\ UNCHANGED <<mgVars, plVars, exVars, histVars>>

\* load_matched_records called on a service that holds a connection
CallLoadMatchedRecords(records) ==
    /\ entry = "load_matched_records"
    /\ lmPc \in {"idle", "returned"}
    /\ loads < MaxLoads
    \* a later call is a re-run of the first one
    /\ loads > 0 => records = lmRecords
    /\ loads' = loads + 1
    /\ UNCHANGED <<objVars, whVars, sfVars, ldVars>>
    /\ LmStart(records)
    /\ UNCHANGED <<findVars, entry, svcVars, pdVars, waitVars>>
    /\ UNCHANGED <<mgVars, plVars, exVars, histVars>>

\* ------------------------------------------------------------ load_records
TargetTable == <<"GOLDEN_ENTITY_RECORDS">>

\* LoadingResult.__init__
LoadingResult(status, records_loaded, error_message) ==
    [status |-> status,
     records_loaded |-> records_loaded,
     target_table |-> TargetTable,
     error_message |-> error_message]

\* the result of both handlers that catch an exception e
ErrorResult(e) == LoadingResult("error", 0, Some(e.msg))

\* log_event(logger, event_name, event_data) as load_records calls it
Event(event_name, event_data) == [event |-> event_name, data |-> event_data]
ErrorEvent(e) == Event("loading_error", e.msg)

NoCredentialsError == [type |-> "NoCredentialsError", msg |-> <<"Unable to locate credentials">>]
ReadFaults == {NoError, NoCredentialsError, AuthError}

\* f"{settings.s3.prefix}output/" and the pattern load_records looks for
LoadPrefix == S3Prefix \o <<"o", "u", "t", "p", "u", "t", "/">>
ResultsPattern == <<"r", "e", "s", "u", "l", "t", "s">>

\* the call: both services are created when none is passed in
CallLoadRecords(s3_key, dry_run) ==
    /\ entry = "load_records"
    /\ ldPc \in {"idle", "returned"}
    /\ loads < MaxLoads
    \* a later call is a re-run of the first one
    /\ loads > 0 => (s3_key = ldArgs.s3_key /\ dry_run = ldArgs.dry_run)
    /\ loads' = loads + 1
    /\ ldArgs' = [s3_key |-> s3_key, dry_run |-> dry_run]
    /\ ldPc' = "called"
    /\ sfConnection' = None
    /\ sfCursor' = None
    /\ ldEvents' = <<>>
    /\ ldBase' = Len(whLog)
    /\ UNCHANGED <<ldKey, ldRecords, ldResult, ldError>>
    /\ UNCHANGED <<objVars, whVars, lmVars>>
    /\ UNCHANGED <<findVars, entry, svcVars, pdVars, waitVars>>
    /\ UNCHANGED <<mgVars, plVars, exVars, histVars>>

\* LdBegin that looks the latest results up before it tests dry_run
LdBegin_LooksUpFirst ==
    /\ ldPc = "called"
    /\ IF ldArgs.s3_key.some /\ Truthy(ldArgs.s3_key.val)
       THEN /\ ldKey' = ldArgs.s3_key
            /\ ldPc' = "read"
            /\ UNCHANGED <<ldResult, flPc, flBase, flPattern>>
       ELSE /\ flPc' = "list_base"
            /\ flBase' = LoadPrefix
            /\ flPattern' = ResultsPattern
            /\ ldPc' = "finding"
            /\ UNCHANGED <<ldResult, ldKey>>
    /\ UNCHANGED <<bucket, s3Calls, flSorted, flIdx, flResult, flError>>
    /\ UNCHANGED <<ldArgs, ldRecords, ldError, ldEvents, ldBase>>
    /\ UNCHANGED <<objVars, whVars, sfVars, lmVars, loads>>
    /\ UNCHANGED <<entry, svcVars, pdVars, waitVars>>
    /\ UNCHANGED <<mgVars, plVars, exVars, histVars>>

\* the dry-run return, else `if not s3_key: s3_key = find_latest_path(...)`
LdBegin ==
    /\ ldPc = "called"
    /\ IF ldArgs.dry_run
       THEN /\ ldResult' = LoadingResult("dry_run", 0, None)
            /\ ldPc' = "returned"
            /\ UNCHANGED <<ldKey, flPc, flBase, flPattern>>
       ELSE IF ldArgs.s3_key.some /\ Truthy(ldArgs.s3_key.val)
       THEN /\ ldKey' = ldArgs.s3_key
            /\ ldPc' = "read"
            /\ UNCHANGED <<ldResult, flPc, flBase, flPattern>>
       ELSE /\ flPc' = "list_base"
            /\ flBase' = LoadPrefix
            /\ flPattern' = ResultsPattern
            /\ ldPc' = "finding"
            /\ UNCHANGED <<ldResult, ldKey>>
    /\ UNCHANGED <<bucket, s3Calls, flSorted, flIdx, flResult, flError>>
    /\ UNCHANGED <<ldArgs, ldRecords, ldError, ldEvents, ldBase>>
    /\ UNCHANGED <<objVars, whVars, sfVars, lmVars, loads>>
    /\ UNCHANGED <<entry, svcVars, pdVars, waitVars>>
    /\ UNCHANGED <<mgVars, plVars, exVars, histVars>>

\* find_latest_path came back: `if not s3_key: return LoadingResult(error)`;
\* an error of the lookup reaches the outer `except Exception`
LdFound ==
    /\ ldPc = "finding"
    /\ flPc \in {"returned", "raised"}
    /\ IF flPc = "raised"
       THEN /\ ldResult' = ErrorResult(flError)
            /\ ldEvents' = Append(ldEvents, ErrorEvent(flError))
            /\ ldPc' = "returned"
            /\ UNCHANGED ldKey
       ELSE IF ~(flResult.some /\ Truthy(flResult.val))
       THEN /\ ldResult' = LoadingResult("error", 0, Some(<<"No matched records found in S3">>))
            /\ ldPc' = "returned"
            /\ UNCHANGED <<ldKey, ldEvents>>
       ELSE /\ ldKey' = flResult
            /\ ldPc' = "read"
            /\ UNCHANGED <<ldResult, ldEvents>>
    /\ UNCHANGED <<ldArgs, ldRecords, ldError, ldBase>>
    /\ UNCHANGED <<objVars, whVars, sfVars, lmVars, loads>>
    /\ UNCHANGED <<findVars, entry, svcVars, pdVars, waitVars>>
    /\ UNCHANGED <<mgVars, plVars, exVars, histVars>>

\* ReadOutcome that lets the JSONDecodeError leave load_records
ReadOutcome_ParseRaises(body) ==
    IF body = <<>>
    THEN [pc |-> "returned",
          result |-> LoadingResult("success", 0, Some(<<"No records to load">>)),
          events |-> <<Event("matched_records_parsed", 0)>>]
    ELSE IF ~ParseBody(body).ok
    THEN [pc |-> "raised", error |-> JSONDecodeError, events |-> <<>>]
    ELSE [pc |-> "enter", records |-> ParseBody(body).records,
          events |-> <<Event("matched_records_parsed", Len(ParseBody(body).records))>>]

\* what load_records does with matched_data: the early return for an empty
\* body, the error result for a JSONDecodeError, else the parsed records
ReadOutcome(body) ==
    IF body = <<>>
    THEN [pc |-> "returned",
          result |-> LoadingResult("success", 0, Some(<<"No records to load">>)),
          events |-> <<Event("matched_records_parsed", 0)>>]
    ELSE IF ~ParseBody(body).ok
    THEN [pc |-> "returned",
          result |-> LoadingResult("error", 0,
                        Some(<<"Failed to parse matched records: ">> \o JSONDecodeError.msg)),
          events |-> <<>>]
    ELSE [pc |-> "enter", records |-> ParseBody(body).records,
          events |-> <<Event("matched_records_parsed", Len(ParseBody(body).records))>>]

\* matched_data = s3_svc.read_object(s3_key), then the parse
LdRead(fault) ==
    /\ ldPc = "read"
    /\ fault \in ReadFaults
    /\ LET key == ldKey.val
           err == IF fault # NoError THEN fault ELSE NoSuchKey
           reading == Event("reading_matched_records", key)
       IN IF fault # NoError \/ key \notin bucket
          THEN /\ s3Gets' = Append(s3Gets, GetCallS3(key, FALSE))
               /\ ldResult' = ErrorResult(err)
               /\ ldEvents' = ldEvents \o <<reading, ErrorEvent(err)>>
               /\ ldPc' = "returned"
               /\ UNCHANGED <<ldRecords, ldError>>
          ELSE LET outcome == ReadOutcome(s3Data[key])
               IN /\ s3Gets' = Append(s3Gets, GetCallS3(key, TRUE))
                  /\ ldEvents' = ldEvents \o <<reading>> \o outcome.events
                  /\ ldPc' = outcome.pc
                  /\ ldResult' = Get(outcome, "result", ldResult)
                  /\ ldRecords' = Get(outcome, "records", ldRecords)
                  /\ ldError' = Get(outcome, "error", ldError)
    /\ UNCHANGED <<s3Data, s3Puts, ldArgs, ldKey, ldBase>>
    /\ UNCHANGED <<whVars, sfVars, lmVars, loads>>
    /\ UNCHANGED <<findVars, entry, svcVars, pdVars, waitVars>>
    /\ UNCHANGED <<mgVars, plVars, exVars, histVars>>

\* ExitOutcome whose handlers catch ProgrammingError only
ExitOutcome_OnlyProgrammingError(exc, loaded) ==
    IF exc = NoError
    THEN [pc |-> "returned", result |-> LoadingResult("success", loaded.val, None),
          events |-> <<Event("loading_complete", loaded.val)>>]
    ELSE IF exc.type = "ProgrammingError"
    THEN [pc |-> "returned", result |-> ErrorResult(exc), events |-> <<ErrorEvent(exc)>>]
    ELSE [pc |-> "raised", error |-> exc, events |-> <<>>]

\* how load_records leaves the `try:` around the with block: the success
\* return, or one of `except ProgrammingError` and `except Exception`
ExitOutcome(exc, loaded) ==
    IF exc = NoError
    THEN [pc |-> "returned", result |-> LoadingResult("success", loaded.val, None),
          events |-> <<Event("loading_complete", loaded.val)>>]
    ELSE [pc |-> "returned", result |-> ErrorResult(exc), events |-> <<ErrorEvent(exc)>>]

\* `with sf_svc:` -> __enter__ -> connect()
LdEnter(ok) ==
    /\ ldPc = "enter"
    /\ IF ok
       THEN /\ whLog' = Append(whLog, [op |-> "connect", conn |-> whNextConn, ok |-> TRUE])
            /\ whConnOpen' = whConnOpen \cup {whNextConn}
            /\ whNextConn' = whNextConn + 1
            /\ sfConnection' = Some(whNextConn)
            /\ ldPc' = "create"
            /\ UNCHANGED <<ldResult, ldError, ldEvents>>
       ELSE LET outcome == ExitOutcome(ConnectFailed, None)
            IN /\ whLog' = Append(whLog, [op |-> "connect", ok |-> FALSE])
               /\ ldPc' = outcome.pc
               /\ ldResult' = Get(outcome, "result", ldResult)
               /\ ldError' = Get(outcome, "error", ldError)
               /\ ldEvents' = ldEvents \o outcome.events
               /\ UNCHANGED <<whConnOpen, whNextConn, sfConnection>>
    /\ UNCHANGED <<whColumns, whRows, sfCursor, ldArgs, ldKey, ldRecords, ldBase>>
    /\ UNCHANGED <<objVars, lmVars, loads>>
    /\ UNCHANGED <<findVars, entry, svcVars, pdVars, waitVars>>
    /\ UNCHANGED <<mgVars, plVars, exVars, histVars>>

\* create_target_table(sf_svc, settings): execute_query of CREATE TABLE IF
\* NOT EXISTS; when it went through, the call of load_matched_records
LdCreateTable(fault) ==
    /\ ldPc = "create"
    /\ fault \in CreateFaults
    /\ sfCursor' = Some(Len(whLog))
    /\ whLog' = Append(whLog, [op |-> "execute", sql |-> "CREATE TABLE IF NOT EXISTS",
                               ok |-> (fault = NoError), error |-> fault])
    /\ UNCHANGED <<whRows, whConnOpen, whNextConn, sfConnection>>
    /\ IF fault # NoError
       THEN /\ ldError' = fault
            /\ ldPc' = "exit"
            /\ UNCHANGED <<whColumns, lmVars>>
       ELSE /\ whColumns' = IF whColumns.some THEN whColumns ELSE Some(CreatedColumns)
            /\ LmStart(ldRecords)
            /\ ldPc' = "loading"
            /\ UNCHANGED ldError
    /\ UNCHANGED <<ldArgs, ldKey, ldRecords, ldResult, ldEvents, ldBase>>
    /\ UNCHANGED <<objVars, loads>>
    /\ UNCHANGED <<findVars, entry, svcVars, pdVars, waitVars>>
    /\ UNCHANGED <<mgVars, plVars, exVars, histVars>>

\* the with block is left, by the return of load_matched_records or by an
\* exception: __exit__ -> disconnect(), then the return or the handler
LdExit(cursorCloseFails) ==
    /\ \/ ldPc = "exit"
       \/ ldPc = "loading" /\ lmPc \in {"returned", "raised"}
    /\ SfDisconnect(cursorCloseFails)
    /\ LET exc == IF ldPc = "exit" THEN ldError ELSE lmError
           outcome == ExitOutcome(exc, lmResult)
       IN /\ ldPc' = outcome.pc
          /\ ldResult' = Get(outcome, "result", ldResult)
          /\ ldError' = Get(outcome, "error", NoError)
          /\ ldEvents' = ldEvents \o outcome.events
    /\ UNCHANGED <<whColumns, whRows, whNextConn>>
    /\ UNCHANGED <<ldArgs, ldKey, ldRecords, ldBase>>
    /\ UNCHANGED <<objVars, lmVars, loads>>
    /\ UNCHANGED <<findVars, entry, svcVars, pdVars, waitVars>>
    /\ UNCHANGED <<mgVars, plVars, exVars, histVars>>

\* ------------------------------------------------------ loader, specification
ResultsFile == <<"r", "e", "s", "u", "l", "t", "s", ".", "j", "s", "o", "n">>
ErrorsFile == <<"e", "r", "r", "o", "r", "s", ".", "j", "s", "o", "n">>

\* an object the matching job of day d wrote below its output prefix
OutKey(d, file) == LoadPrefix \o Stamp(d) \o <<"/">> \o file

\* a key that names no object
MissingKey == LoadPrefix \o <<"n", "o", "n", "e">>

LoadBuckets ==
    {{},
     {OutKey(10, ResultsFile)},
     {OutKey(10, ErrorsFile)},
     {OutKey(5, ResultsFile), OutKey(10, ResultsFile)},
     {OutKey(5, ResultsFile), OutKey(10, ErrorsFile)}}

\* a row that is in the target table before the load
ExistingRow(columns) == [c \in columns |-> IF c = AttrId THEN Some("0") ELSE None]

\* the records arguments of a direct call
RecordLists ==
    {<<>>, <<CamelRecord>>, <<CamelCaseRecord>>, <<SnakeRecord, PartialRecord>>,
     <<TwoCaseRecord>>, <<CamelRecord, Scalar>>}
    \cup {[i \in 1..n |-> NumberedRecord(i)] :
             n \in {k * batch_size + d : k \in 1..MaxBatches, d \in {-1, 0, 1}}}

\* ---------------------------------------------------------------- settings
\* attribute paths of the settings the validators of the CLI read
SettingPaths ==
    {"snowflake_source.account", "s3.bucket", "source_table",
     "entity_resolution.workflow_name", "snowflake_target.account", "target_table"}

\* get_settings() in an environment that configures every one of them
Configured == [p \in SettingPaths |-> "set"]

\* what get_settings() may return: a setting is "" when neither the
\* environment nor a default provides it
Environments == [SettingPaths -> {"", "set"}]

\* validate_extract_settings, validate_process_settings and
\* validate_load_settings: the attribute each reads and the name it reports
Validators ==
    << << <<"snowflake_source.account", "SNOWFLAKE_ACCOUNT">>,
          <<"s3.bucket", "S3_BUCKET_NAME">>,
          <<"source_table", "SOURCE_TABLE">> >>,
       << <<"entity_resolution.workflow_name", "ER_WORKFLOW_NAME">>,
          <<"s3.bucket", "S3_BUCKET_NAME">> >>,
       << <<"s3.bucket", "S3_BUCKET_NAME">>,
          <<"snowflake_target.account", "SNOWFLAKE_TARGET_ACCOUNT">>,
          <<"target_table", "TARGET_TABLE">> >> >>

\* Missing that looks at the first setting of a validator only
Missing_FirstOnly(s, checks) ==
    IF s[checks[1][1]] = "" THEN <<checks[1][2]>> ELSE <<>>

\* the `missing` list of one validator:
\* `if not settings.<path>: missing.append(<name>)`
Missing(s, checks) ==
    LET Absent(c) == s[c[1]] = ""
        found == SelectSeq(checks, Absent)
    IN [i \in 1..Len(found) |-> found[i][2]]

\* what the three validators echo to stderr, in call order
ValidationEcho(s) ==
    LET Echo(i) == IF Missing(s, Validators[i]) = <<>> THEN <<>>
                   ELSE <<[err |-> TRUE, missing |-> Missing(s, Validators[i])]>>
    IN Echo(1) \o Echo(2) \o Echo(3)

\* no call has been made yet
InitIdle ==
    /\ s3Gets = <<>>
    /\ whLog = <<>>
    /\ sfCursor = None
    /\ ldPc = "idle"
    /\ ldArgs = [s3_key |-> None, dry_run |-> FALSE]
    /\ ldKey = None
    /\ ldRecords = <<>>
    /\ ldResult = NoResult
    /\ ldError = NoError
    /\ ldEvents = <<>>
    /\ ldBase = 0
    /\ lmPc = "idle"
    /\ lmRecords = <<>>
    /\ lmI = 0
    /\ lmLoaded = 0
    /\ lmResult = None
    /\ lmError = NoError
    /\ lmCalls = <<>>
    /\ loads = 0
    /\ mgPc = "idle"
    /\ mgArgs = [s3_path |-> <<>>, dry_run |-> FALSE]
    /\ mgTemp = <<>>
    /\ mgResult = NoResult
    /\ mgClock = 1
    /\ mgAfter = <<>>
    /\ plPc = "idle"
    /\ plArgs = [dry_run |-> FALSE, wait |-> TRUE]
    /\ plStages = <<>>
    /\ plExtract = NoResult
    /\ plExit = None
    /\ settings = None
    /\ plEcho = <<>>
    /\ plSeen = <<>>
    /\ s3Puts = <<>>
    /\ exPc = "idle"
    /\ exArgs = [settings |-> None, dry_run |-> FALSE]
    /\ exResult = NoResult
    /\ lambdaCalls = <<>>
    /\ sfCalls = <<>>

InitExt ==
    /\ InitIdle
    /\ environ = Configured
    /\ s3Data = [k \in bucket |-> <<>>]
    /\ whColumns = None
    /\ whRows = <<>>
    /\ whConnOpen = {}
    /\ whNextConn = 1
    /\ sfConnection = None

\* ------------------------------------------------ MERGE loader: load_data
\* columns of the table create_table makes: the standard columns and one
\* column, upper-cased, per attribute of the matching schema
ID == <<"I", "D">>
LAST_UPDATED == <<"L", "A", "S", "T", "_", "U", "P", "D", "A", "T", "E", "D">>
MergeColumns == {ID, MATCH_ID, MATCH_SCORE, LAST_UPDATED, <<"N", "A", "M", "E">>}

\* COPY INTO the temporary table: one row per record of the object, every
\* column taken from the record's key of that name, NULL without one
CopyRows(records) ==
    [r \in 1..Len(records) |-> [c \in MergeColumns |-> ColumnValue(records[r], c)]]

\* the MERGE that inserts every source row, matched or not
Merge_InsertAll(target, source, now) ==
    target \o [s \in 1..Len(source) |-> [source[s] EXCEPT ![LAST_UPDATED] = Some(now)]]

\* MERGE INTO target USING source ON target.ID = source.ID: a matched row
\* takes every column but ID from the source row and LAST_UPDATED = now; a
\* source row without a match is appended with LAST_UPDATED = now
Merge(target, source, now) ==
    LET Matches(t) == {s \in 1..Len(source) : source[s][ID].some /\ source[s][ID] = t[ID]}
        Unmatched == SelectSeq(source, LAMBDA row :
                        \A i \in 1..Len(target) : ~row[ID].some \/ target[i][ID] # row[ID])
    IN [i \in 1..Len(target) |->
           IF Matches(target[i]) = {} THEN target[i]
           ELSE [c \in MergeColumns |->
                    IF c = ID THEN target[i][ID]
                    ELSE IF c = LAST_UPDATED THEN Some(now)
                    ELSE source[CHOOSE s \in Matches(target[i]) : TRUE][c]]]
       \o [s \in 1..Len(Unmatched) |-> [Unmatched[s] EXCEPT ![LAST_UPDATED] = Some(now)]]

\* the dict load_data returns
MergeResult(status, records_loaded, extra) ==
    [status |-> status, records_loaded |-> records_loaded, target_table |-> TargetTable]
    @@ extra

\* load_data(s3_path, target_table, schema_name, dry_run): the dry-run return
CallLoadData(s3_path, dry_run) ==
    /\ entry = "load_data"
    /\ mgPc \in {"idle", "returned"}
    /\ loads < MaxLoads
    \* a later call is a re-run of the first one
    /\ loads > 0 => (s3_path = mgArgs.s3_path /\ dry_run = mgArgs.dry_run)
    /\ loads' = loads + 1
    /\ mgArgs' = [s3_path |-> s3_path, dry_run |-> dry_run]
    /\ IF dry_run
       THEN /\ mgResult' = MergeResult("success", 0, [dry_run |-> TRUE])
            /\ mgPc' = "returned"
       ELSE /\ mgPc' = "called"
            /\ UNCHANGED mgResult
    /\ UNCHANGED <<mgTemp, mgClock, mgAfter>>
    /\ UNCHANGED <<objVars, whVars, sfVars, ldVars, lmVars, plVars, exVars, histVars>>
    /\ UNCHANGED <<findVars, entry, svcVars, pdVars, waitVars>>

\* connect, create_table (its failure is logged and ignored), the temporary
\* table LIKE the target, and COPY INTO it from s3_path; an exception of any
\* of them ends in the error dict after conn.close()
MgStage(connectOk, createOk) ==
    /\ mgPc = "called"
    /\ LET conn == whNextConn
           columns == IF createOk /\ ~whColumns.some THEN Some(MergeColumns) ELSE whColumns
           key == mgArgs.s3_path
           parsed == IF key \in bucket /\ s3Data[key] # <<>>
                     THEN ParseBody(s3Data[key])
                     ELSE [ok |-> key \in bucket, records |-> <<>>]
           copyOk == parsed.ok /\ \A r \in 1..Len(parsed.records) : IsDict(parsed.records[r])
           err == IF ~columns.some THEN ProgrammingError(<<"table does not exist">>)
                  ELSE IF ~copyOk THEN ProgrammingError(<<"COPY failed">>)
                  ELSE NoError
           opened == <<[op |-> "connect", conn |-> conn, ok |-> TRUE],
                       [op |-> "execute", sql |-> "CREATE TABLE IF NOT EXISTS",
                        ok |-> createOk, error |-> NoError]>>
           closed == <<[op |-> "close", conn |-> conn]>>
       IN IF ~connectOk
          THEN /\ whLog' = Append(whLog, [op |-> "connect", ok |-> FALSE])
               /\ mgResult' = MergeResult("error", 0, [error_message |-> ConnectFailed.msg])
               /\ mgPc' = "returned"
               /\ UNCHANGED <<whColumns, whNextConn, whConnOpen, mgTemp>>
          ELSE /\ whColumns' = columns
               /\ whNextConn' = whNextConn + 1
               /\ IF err # NoError
                  THEN /\ whLog' = whLog \o opened \o closed
                       /\ mgResult' = MergeResult("error", 0, [error_message |-> err.msg])
                       /\ mgPc' = "returned"
                       /\ UNCHANGED <<whConnOpen, mgTemp>>
                  ELSE /\ whLog' = whLog \o opened
                       /\ whConnOpen' = whConnOpen \cup {conn}
                       /\ mgTemp' = CopyRows(parsed.records)
                       /\ mgPc' = "staged"
                       /\ UNCHANGED mgResult
    /\ UNCHANGED <<whRows, mgArgs, mgClock, mgAfter, loads>>
    /\ UNCHANGED <<objVars, sfVars, ldVars, lmVars, plVars, exVars, histVars>>
    /\ UNCHANGED <<findVars, entry, svcVars, pdVars, waitVars>>

\* DESC TABLE, the MERGE, commit and the success dict; a MERGE the warehouse
\* fails changes nothing; conn.close() in the finally
MgMerge(mergeOk) ==
    /\ mgPc = "staged"
    /\ mgClock' = mgClock + 1
    /\ LET merged == Merge(whRows, mgTemp, mgClock')
           conn == whNextConn - 1
       IN IF mergeOk
          THEN /\ whRows' = merged
               /\ whLog' = whLog \o <<[op |-> "execute", sql |-> "MERGE", ok |-> TRUE,
                                       error |-> NoError],
                                      [op |-> "commit"], [op |-> "close", conn |-> conn]>>
               /\ mgResult' = MergeResult("success", Len(merged) - Len(whRows), <<>>)
               /\ mgAfter' = Append(mgAfter, merged)
          ELSE /\ whLog' = whLog \o <<[op |-> "execute", sql |-> "MERGE", ok |-> FALSE,
                                       error |-> InsertFailed],
                                      [op |-> "close", conn |-> conn]>>
               /\ mgResult' = MergeResult("error", 0, [error_message |-> InsertFailed.msg])
               /\ UNCHANGED <<whRows, mgAfter>>
    /\ whConnOpen' = whConnOpen \ {whNextConn - 1}
    /\ mgTemp' = <<>>
    /\ mgPc' = "returned"
    /\ UNCHANGED <<whColumns, whNextConn, mgArgs, loads>>
    /\ UNCHANGED <<objVars, sfVars, ldVars, lmVars, plVars, exVars, histVars>>
    /\ UNCHANGED <<findVars, entry, svcVars, pdVars, waitVars>>

\* --------------------------------------------------------- extract_data
\* ExtractionResult as extract_data builds it
ExtractionResult(success, status, error_message) ==
    [success |-> success, status |-> status, error_message |-> error_message]

\* f"{settings.s3.prefix}{timestamp}/entity_data.json"
ExtractKey ==
    S3Prefix \o Stamp(NowDay)
    \o <<"/", "e", "n", "t", "i", "t", "y", "_", "d", "a", "t", "a", ".", "j", "s", "o", "n">>

\* what may go wrong: the connection, the query, the write of the object
QueryFailed == ProgrammingError(<<"Failed to execute Snowflake query">>)
ExtractFaults == {NoError, ConnectFailed, QueryFailed, StorageError}

\* what the warehouse driver receives from `with sf_service:` around
\* execute_query(query): connect, the SELECT, and disconnect on the way out
ExtractLog(conn, table, fault) ==
    IF fault = ConnectFailed THEN <<[op |-> "connect", ok |-> FALSE]>>
    ELSE <<[op |-> "connect", conn |-> conn, ok |-> TRUE],
           [op |-> "execute", sql |-> "SELECT", table |-> table,
            ok |-> fault # QueryFailed,
            error |-> IF fault = QueryFailed THEN fault ELSE NoError],
           [op |-> "cursor.close", ok |-> TRUE],
           [op |-> "close", conn |-> conn]>>

\* ExtractOutcome that lets the error of the storage write through
ExtractOutcome_WriteRaises(dry_run, fault) ==
    IF dry_run THEN [pc |-> "returned", result |-> ExtractionResult(TRUE, "dry_run", None)]
    ELSE IF fault = NoError
    THEN [pc |-> "returned", result |-> ExtractionResult(TRUE, "success", None)]
    ELSE IF fault = StorageError THEN [pc |-> "raised", result |-> NoResult]
    ELSE [pc |-> "returned", result |-> ExtractionResult(FALSE, "success", Some(fault.msg))]

\* how extract_data ends: the dry-run return, the success return, or
\* `except Exception as e: return ExtractionResult(success=False,
\* error_message=str(e))`, which leaves status at its default
ExtractOutcome(dry_run, fault) ==
    IF dry_run THEN [pc |-> "returned", result |-> ExtractionResult(TRUE, "dry_run", None)]
    ELSE IF fault = NoError
    THEN [pc |-> "returned", result |-> ExtractionResult(TRUE, "success", None)]
    ELSE [pc |-> "returned", result |-> ExtractionResult(FALSE, "success", Some(fault.msg))]

\* the call: both services are created when none is passed in
CallExtractData(s, dry_run) ==
    /\ entry = "extract_data"
    /\ exPc = "idle"
    /\ exArgs' = [settings |-> Some(s), dry_run |-> dry_run]
    /\ exPc' = "called"
    /\ UNCHANGED <<findVars, entry, svcVars, pdVars, waitVars, exResult>>
    /\ UNCHANGED <<objVars, whVars, sfVars, ldVars, lmVars, loads, mgVars, plVars, histVars>>

\* the body of extract_data: the dry-run return before any call; else the
\* query inside the with block, then write_object of the records
ExtractData(fault) ==
    /\ exPc = "called"
    /\ LET outcome == ExtractOutcome(exArgs.dry_run, fault)
           table == exArgs.settings.val["source_table"]
       IN /\ exPc' = outcome.pc
          /\ exResult' = outcome.result
          /\ IF exArgs.dry_run
             THEN UNCHANGED <<bucket, s3Data, s3Puts, whLog, whNextConn>>
             ELSE /\ whLog' = whLog \o ExtractLog(whNextConn, table, fault)
                  /\ whNextConn' = IF fault = ConnectFailed THEN whNextConn
                                   ELSE whNextConn + 1
                  /\ IF fault \in {NoError, StorageError}
                     THEN s3Puts' = Append(s3Puts, [Key |-> ExtractKey,
                                                    ok |-> fault = NoError])
                     ELSE UNCHANGED s3Puts
                  /\ IF fault = NoError
                     THEN /\ bucket' = bucket \cup {ExtractKey}
                          /\ s3Data' = (ExtractKey :> <<DocLine(PartialRecord)>>) @@ s3Data
                     ELSE UNCHANGED <<bucket, s3Data>>
    /\ UNCHANGED <<s3Calls, flPc, flBase, flPattern, flSorted, flIdx, flResult, flError>>
    /\ UNCHANGED <<entry, svcVars, pdVars, waitVars, exArgs>>
    /\ UNCHANGED <<s3Gets, whColumns, whRows, whConnOpen>>
    /\ UNCHANGED <<sfVars, ldVars, lmVars, loads, mgVars, plVars, histVars>>

\* --------------------------------------------------------- run_pipeline
\* path.split("/")[-1]
RECURSIVE LastSegment(_)
LastSegment(path) ==
    IF path = <<>> \/ path[Len(path)] = "/" THEN <<>>
    ELSE LastSegment(SubSeq(path, 1, Len(path) - 1)) \o <<path[Len(path)]>>

\* the table a --source-table option names
OtherTable == "OTHER"

\* the command is invoked: get_settings(), the three validate_*_settings
\* calls and `raise typer.Exit(1)` unless all three passed; then the
\* --source-table override and step 1, the call of extract_data
CallRunPipeline(dry_run, wait, source_table) ==
    /\ entry = "run_pipeline"
    /\ plPc = "idle"
    /\ plArgs' = [dry_run |-> dry_run, wait |-> wait, source_table |-> source_table]
    /\ plEcho' = ValidationEcho(environ)
    /\ IF ValidationEcho(environ) # <<>>
       THEN /\ settings' = Some(environ)
            /\ plPc' = "exited"
            /\ plExit' = Some(1)
            /\ UNCHANGED <<plStages, plSeen, exPc, exArgs>>
       ELSE LET overridden == IF source_table.some
                              THEN [environ EXCEPT !["source_table"] = source_table.val]
                              ELSE environ
            IN /\ settings' = Some(overridden)
               /\ plStages' = <<"extract">>
               /\ plSeen' = <<overridden>>
               /\ exArgs' = [settings |-> Some(overridden), dry_run |-> dry_run]
               /\ exPc' = "called"
               /\ plPc' = "extract"
               /\ UNCHANGED plExit
    /\ UNCHANGED <<plExtract, environ, exResult>>
    /\ UNCHANGED <<findVars, entry, svcVars, pdVars, waitVars>>
    /\ UNCHANGED <<objVars, whVars, sfVars, ldVars, lmVars, loads, mgVars, histVars>>

\* PlExtracted that calls get_settings() again before step 2
PlExtracted_Reloads ==
    /\ plPc = "extract"
    /\ exPc \in {"returned", "raised"}
    /\ IF exPc = "raised" \/ ~exResult.success
       THEN /\ plPc' = "exited"
            /\ plExit' = Some(1)
            /\ plExtract' = IF exPc = "raised" THEN plExtract ELSE exResult
            /\ UNCHANGED <<plStages, plSeen, pdPc, pdArgs, settings>>
       ELSE /\ plExtract' = exResult
            /\ plStages' = Append(plStages, "process")
            /\ settings' = Some(environ)
            /\ plSeen' = Append(plSeen, environ)
            /\ pdArgs' = [dry_run |-> plArgs.dry_run, wait |-> plArgs.wait,
                          input_uri |-> None]
            /\ pdPc' = "called"
            /\ plPc' = "process"
            /\ UNCHANGED plExit
    /\ UNCHANGED <<plArgs, environ, plEcho, exVars>>
    /\ UNCHANGED <<pdInputFile, pdOutputPrefix, pdJobId, pdResult, pdError>>
    /\ UNCHANGED <<findVars, entry, svcVars, waitVars>>
    /\ UNCHANGED <<objVars, whVars, sfVars, ldVars, lmVars, loads, mgVars, histVars>>

\* extract_data came back: `if not extract_result.success: raise
\* typer.Exit(1)`, else step 2, the call of process_data
PlExtracted ==
    /\ plPc = "extract"
    /\ exPc \in {"returned", "raised"}
    /\ IF exPc = "raised" \/ ~exResult.success
       THEN /\ plPc' = "exited"
            /\ plExit' = Some(1)
            /\ plExtract' = IF exPc = "raised" THEN plExtract ELSE exResult
            /\ UNCHANGED <<plStages, plSeen, pdPc, pdArgs>>
       ELSE /\ plExtract' = exResult
            /\ plStages' = Append(plStages, "process")
            /\ plSeen' = Append(plSeen, settings.val)
            /\ pdArgs' = [dry_run |-> plArgs.dry_run, wait |-> plArgs.wait,
                          input_uri |-> None]
            /\ pdPc' = "called"
            /\ plPc' = "process"
            /\ UNCHANGED plExit
    /\ UNCHANGED <<plArgs, environ, settings, plEcho, exVars>>
    /\ UNCHANGED <<pdInputFile, pdOutputPrefix, pdJobId, pdResult, pdError>>
    /\ UNCHANGED <<findVars, entry, svcVars, waitVars>>
    /\ UNCHANGED <<objVars, whVars, sfVars, ldVars, lmVars, loads, mgVars, histVars>>

\* PlProcessed that goes on to step 3 whatever process_data did
PlProcessed_Continues ==
    /\ plPc = "process"
    /\ pdPc \in {"returned", "raised"}
    /\ plStages' = Append(plStages, "load")
    /\ plSeen' = Append(plSeen, settings.val)
    /\ ldArgs' = [s3_key |-> None, dry_run |-> plArgs.dry_run]
    /\ ldPc' = "called"
    /\ ldEvents' = <<>>
    /\ ldBase' = Len(whLog)
    /\ plPc' = "load"
    /\ UNCHANGED <<plExit, ldKey, ldRecords, ldResult, ldError>>
    /\ UNCHANGED <<plArgs, plExtract, environ, settings, plEcho, exVars>>
    /\ UNCHANGED <<objVars, whVars, sfVars, lmVars, loads, mgVars, histVars>>
    /\ UNCHANGED <<findVars, entry, svcVars, pdVars, waitVars>>

\* process_data came back: an exception reaches `except Exception` and a
\* result with success False reaches `raise typer.Exit(1)`; else step 3,
\* load_records with s3_key = output_path.split("/")[-1], or None for an
\* empty output_path
PlProcessed ==
    /\ plPc = "process"
    /\ pdPc \in {"returned", "raised"}
    /\ IF pdPc = "raised" \/ ~pdResult.success
       THEN /\ plPc' = "exited"
            /\ plExit' = Some(1)
            /\ UNCHANGED <<plStages, plSeen, ldVars>>
       ELSE /\ plStages' = Append(plStages, "load")
            /\ plSeen' = Append(plSeen, settings.val)
            /\ ldArgs' = [s3_key |-> IF Truthy(pdResult.output_path)
                                     THEN Some(LastSegment(pdResult.output_path))
                                     ELSE None,
                          dry_run |-> plArgs.dry_run]
            /\ ldPc' = "called"
            /\ ldEvents' = <<>>
            /\ ldBase' = Len(whLog)
            /\ plPc' = "load"
            /\ UNCHANGED <<plExit, ldKey, ldRecords, ldResult, ldError>>
    /\ UNCHANGED <<plArgs, plExtract, environ, settings, plEcho, exVars>>
    /\ UNCHANGED <<objVars, whVars, sfVars, lmVars, loads, mgVars, histVars>>
    /\ UNCHANGED <<findVars, entry, svcVars, pdVars, waitVars>>

\* load_records came back: `if not load_result.success`, an attribute the
\* LoadingResult does not have, so the AttributeError reaches
\* `except Exception`; `return 0` otherwise
PlLoaded ==
    /\ plPc = "load"
    /\ ldPc = "returned"
    /\ plPc' = "exited"
    /\ plExit' = IF "success" \in DOMAIN ldResult /\ ldResult.success THEN Some(0) ELSE Some(1)
    /\ UNCHANGED <<plArgs, plStages, plExtract, environ, settings, plEcho, plSeen, exVars>>
    /\ UNCHANGED <<objVars, whVars, sfVars, ldVars, lmVars, loads, mgVars, histVars>>
    /\ UNCHANGED <<findVars, entry, svcVars, pdVars, waitVars>>

\* the matching job writes an object below the output prefix it was given
SvcWriteOutput(file) ==
    /\ NewJobId \in DOMAIN svcJobs
    /\ svcJobs[NewJobId]["jobStatus"] \in NonTerminal
    /\ ~\E k \in bucket : StartsWith(k, OutputPrefix)
    /\ bucket' = bucket \cup {OutputPrefix \o file}
    /\ s3Data' = (OutputPrefix \o file :> <<DocLine(CamelRecord)>>) @@ s3Data
    /\ UNCHANGED <<s3Calls, flPc, flBase, flPattern, flSorted, flIdx, flResult, flError>>
    /\ UNCHANGED <<entry, svcVars, pdVars, waitVars, s3Gets, s3Puts>>
    /\ UNCHANGED <<whVars, sfVars, ldVars, lmVars, loads, mgVars, plVars, exVars, histVars>>

\* ------------------------------------- SnowflakeService, method by method
\* A caller uses one SnowflakeService through connect, execute_query and
\* disconnect in any order, while the warehouse may close the connection
\* from its side. sfCalls keeps every call: what the service held before
\* and after, what the driver was sent, what was raised and returned.
InterfaceError(msg) == [type |-> "InterfaceError", msg |-> msg]
ConnectionClosed == [type |-> "DatabaseError", msg |-> <<"Connection is closed">>]
CloseFailed == [type |-> "Error", msg |-> <<"Close failed">>]

ConnectFaults == {NoError, ConnectFailed, InterfaceError(<<"Invalid credentials">>)}
QueryFaults == {NoError, QueryFailed}

Held == [connection |-> sfConnection, cursor |-> sfCursor,
         open |-> sfConnection.some /\ sfConnection.val \in whConnOpen]

\* connect that never looks at the connection it holds
ConnectOutcome_AlwaysOpens(connection, open, next, fault) ==
    IF fault = NoError
    THEN [raised |-> NoError, connection |-> Some(next), opened |-> TRUE,
          sent |-> <<[op |-> "connect", conn |-> next, ok |-> TRUE]>>]
    ELSE [raised |-> fault, connection |-> connection, opened |-> FALSE,
          sent |-> <<[op |-> "connect", ok |-> FALSE]>>]

\* SnowflakeService.connect: the connection held when it is open, else a
\* new one from the driver, whose error is raised again
ConnectOutcome(connection, open, next, fault) ==
    IF connection.some /\ connection.val \in open
    THEN [raised |-> NoError, connection |-> connection, opened |-> FALSE,
          sent |-> <<>>]
    ELSE IF fault = NoError
    THEN [raised |-> NoError, connection |-> Some(next), opened |-> TRUE,
          sent |-> <<[op |-> "connect", conn |-> next, ok |-> TRUE]>>]
    ELSE [raised |-> fault, connection |-> connection, opened |-> FALSE,
          sent |-> <<[op |-> "connect", ok |-> FALSE]>>]

SfCallConnect(fault) ==
    /\ entry = "SnowflakeService"
    /\ Len(sfCalls) < MaxSfCalls
    /\ LET o == ConnectOutcome(sfConnection, whConnOpen, whNextConn, fault)
       IN /\ whLog' = whLog \o o.sent
          /\ whConnOpen' = IF o.opened THEN whConnOpen \cup {whNextConn} ELSE whConnOpen
          /\ whNextConn' = IF o.opened THEN whNextConn + 1 ELSE whNextConn
          /\ sfConnection' = o.connection
          /\ UNCHANGED sfCursor
          /\ sfCalls' = Append(sfCalls,
                               [op |-> "connect", before |-> Held,
                                raised |-> o.raised,
                                returned |-> IF o.raised = NoError THEN o.connection
                                             ELSE None,
                                sent |-> o.sent,
                                after |-> [connection |-> sfConnection',
                                           cursor |-> sfCursor']])
    /\ UNCHANGED <<whColumns, whRows, lambdaCalls>>
    /\ UNCHANGED <<findVars, entry, svcVars, pdVars, waitVars>>
    /\ UNCHANGED <<objVars, ldVars, lmVars, loads, mgVars, plVars, exVars>>

\* SnowflakeService.execute_query: connect when no connection is held, a
\* cursor of the connection held, the query on that cursor
SfCallExecuteQuery(connFault, queryFault) ==
    /\ entry = "SnowflakeService"
    /\ Len(sfCalls) < MaxSfCalls
    /\ LET o == IF sfConnection = None
                THEN ConnectOutcome(sfConnection, whConnOpen, whNextConn, connFault)
                ELSE [raised |-> NoError, connection |-> sfConnection,
                      opened |-> FALSE, sent |-> <<>>]
           open == IF o.opened THEN whConnOpen \cup {whNextConn} ELSE whConnOpen
           step == IF o.raised # NoError
                   THEN [raised |-> o.raised, cursor |-> sfCursor, sent |-> <<>>]
                   ELSE IF o.connection.val \notin open
                   THEN [raised |-> ConnectionClosed, cursor |-> sfCursor,
                         sent |-> <<[op |-> "cursor", conn |-> o.connection.val,
                                     ok |-> FALSE]>>]
                   ELSE [raised |-> queryFault,
                         cursor |-> Some(Len(whLog) + Len(o.sent)),
                         sent |-> <<[op |-> "execute", sql |-> "SELECT",
                                     ok |-> (queryFault = NoError),
                                     error |-> queryFault]>>]
       IN /\ whLog' = whLog \o o.sent \o step.sent
          /\ whConnOpen' = open
          /\ whNextConn' = IF o.opened THEN whNextConn + 1 ELSE whNextConn
          /\ sfConnection' = o.connection
          /\ sfCursor' = step.cursor
          /\ sfCalls' = Append(sfCalls,
                               [op |-> "execute_query", before |-> Held,
                                raised |-> step.raised,
                                returned |-> None,
                                sent |-> o.sent \o step.sent,
                                after |-> [connection |-> sfConnection',
                                           cursor |-> sfCursor']])
    /\ UNCHANGED <<whColumns, whRows, lambdaCalls>>
    /\ UNCHANGED <<findVars, entry, svcVars, pdVars, waitVars>>
    /\ UNCHANGED <<objVars, ldVars, lmVars, loads, mgVars, plVars, exVars>>

\* disconnect that lets a failing close of the cursor out
SfCallDisconnect_Raises(cursorCloseFails) ==
    /\ entry = "SnowflakeService"
    /\ Len(sfCalls) < MaxSfCalls
    /\ IF cursorCloseFails /\ sfCursor.some
       THEN /\ whLog' = whLog \o DisconnectLog(sfCursor, None, cursorCloseFails)
            /\ sfCursor' = None
            /\ UNCHANGED <<whConnOpen, sfConnection>>
       ELSE SfDisconnect(cursorCloseFails)
    /\ sfCalls' = Append(sfCalls,
                         [op |-> "disconnect", before |-> Held,
                          raised |-> IF cursorCloseFails /\ sfCursor.some
                                     THEN CloseFailed ELSE NoError,
                          returned |-> None,
                          sent |-> SubSeq(whLog', Len(whLog) + 1, Len(whLog')),
                          after |-> [connection |-> sfConnection',
                                     cursor |-> sfCursor']])
    /\ UNCHANGED <<whColumns, whRows, whNextConn, lambdaCalls>>
    /\ UNCHANGED <<findVars, entry, svcVars, pdVars, waitVars>>
    /\ UNCHANGED <<objVars, ldVars, lmVars, loads, mgVars, plVars, exVars>>

\* a call of SnowflakeService.disconnect; cursorCloseFails: the driver
\* answers the close of the cursor with an error of its own
SfCallDisconnect(cursorCloseFails) ==
    /\ entry = "SnowflakeService"
    /\ Len(sfCalls) < MaxSfCalls
    /\ SfDisconnect(cursorCloseFails)
    /\ sfCalls' = Append(sfCalls,
                         [op |-> "disconnect", before |-> Held,
                          raised |-> NoError,
                          returned |-> None,
                          sent |-> SubSeq(whLog', Len(whLog) + 1, Len(whLog')),
                          after |-> [connection |-> sfConnection',
                                     cursor |-> sfCursor']])
    /\ UNCHANGED <<whColumns, whRows, whNextConn, lambdaCalls>>
    /\ UNCHANGED <<findVars, entry, svcVars, pdVars, waitVars>>
    /\ UNCHANGED <<objVars, ldVars, lmVars, loads, mgVars, plVars, exVars>>

\* the warehouse closes a connection from its side: is_closed() turns true
WhDrop(conn) ==
    /\ entry = "SnowflakeService"
    /\ conn \in whConnOpen
    /\ whConnOpen' = whConnOpen \ {conn}
    /\ UNCHANGED <<whColumns, whRows, whLog, whNextConn, sfVars, histVars>>
    /\ UNCHANGED <<findVars, entry, svcVars, pdVars, waitVars>>
    /\ UNCHANGED <<objVars, ldVars, lmVars, loads, mgVars, plVars, exVars>>

\* -------------------------------------------------------- Lambda handlers
\* Each invocation is one step: the handler reads the job once and answers.
\* lambdaCalls keeps, per invocation, the status the handler read (None
\* when it read none) and what it answered.
DefaultBucket == <<"b", "k", "t">>
MissingJobId == <<"Missing required parameter: job_id">>

\* check_status.lambda_handler: the body answered for the job_info read
CheckStatusBody(job_id, s3_bucket, job_info) ==
    IF job_info.status = "SUCCEEDED"
    THEN [status |-> "completed",
          job_id |-> job_id,
          input_records |->
              Get(Get(job_info.statistics, "inputSourceStatistics", EmptyDict),
                  "recordCount", 0),
          matched_records |-> Get(job_info.statistics, "matchedCount", 0),
          s3_bucket |-> s3_bucket,
          s3_key |-> job_info.output_location,
          is_complete |-> TRUE]
    ELSE IF job_info.status \in {"FAILED", "STOPPED"}
    THEN [status |-> "failed",
          job_id |-> job_id,
          is_complete |-> TRUE,
          error_message |-> job_info.errors]
    ELSE [status |-> "running",
          job_id |-> job_id,
          s3_bucket |-> s3_bucket,
          is_complete |-> FALSE]

\* the answer of the except branch
CheckStatusError(msg) ==
    [statusCode |-> 500,
     body |-> [status |-> "error", message |-> msg, is_complete |-> TRUE]]

\* a caller invokes check_status, and again until is_complete
CheckStatusHandler(job_id) ==
    /\ entry = "check_status"
    /\ Len(lambdaCalls) < MaxPolls
    /\ lambdaCalls # <<>> => ~lambdaCalls[Len(lambdaCalls)].response.body.is_complete
    /\ IF job_id = ""
       THEN /\ lambdaCalls' = Append(lambdaCalls,
                                     [job_status |-> None,
                                      response |-> CheckStatusError(MissingJobId)])
            /\ UNCHANGED svcCalls
       ELSE /\ svcCalls' = Append(svcCalls, GetCall(job_id))
            /\ lambdaCalls' =
                  Append(lambdaCalls,
                         [job_status |-> Some(svcJobs[job_id]["jobStatus"]),
                          response |->
                              [statusCode |-> 200,
                               body |-> CheckStatusBody(job_id, DefaultBucket,
                                                        get_job_status(svcJobs[job_id]))]])
    /\ UNCHANGED <<findVars, entry, svcJobs, pdVars, waitVars>>
    /\ UNCHANGED <<objVars, whVars, sfVars, ldVars, lmVars, loads, mgVars, plVars, exVars, sfCalls>>

\* EntityResolutionService.get_matching_job_status: the job's status
get_matching_job_status(response) == response["jobStatus"]

\* check_entity_resolution_job_handler: the response for the status read
CheckJobResponse(job_id, status, output_path) ==
    LET response == [status |-> IF status = "IN_PROGRESS" THEN "in_progress"
                                ELSE "completed",
                     job_status |-> status,
                     job_id |-> job_id]
    IN IF status = "SUCCEEDED" /\ output_path.some /\ Truthy(output_path.val)
       THEN ("output_path" :> output_path.val) @@ response
       ELSE response

\* a caller invokes check_entity_resolution_job_handler, and again while the
\* answer is "in_progress"; without a job_id the handler raises
CheckJobHandler(job_id, output_path) ==
    /\ entry = "check_entity_resolution_job"
    /\ Len(lambdaCalls) < MaxPolls
    /\ lambdaCalls # <<>> =>
          /\ lambdaCalls[Len(lambdaCalls)].raised = NoError
          /\ lambdaCalls[Len(lambdaCalls)].response["status"] = "in_progress"
    /\ IF job_id = ""
       THEN /\ lambdaCalls' = Append(lambdaCalls,
                                     [job_status |-> None,
                                      raised |-> [type |-> "ValueError",
                                                  msg |-> MissingJobId],
                                      response |-> EmptyDict])
            /\ UNCHANGED svcCalls
       ELSE /\ svcCalls' = Append(svcCalls, GetCall(job_id))
            /\ lambdaCalls' =
                  Append(lambdaCalls,
                         [job_status |-> Some(svcJobs[job_id]["jobStatus"]),
                          raised |-> NoError,
                          response |->
                              CheckJobResponse(job_id,
                                               get_matching_job_status(svcJobs[job_id]),
                                               output_path)])
    /\ UNCHANGED <<findVars, entry, svcJobs, pdVars, waitVars>>
    /\ UNCHANGED <<objVars, whVars, sfVars, ldVars, lmVars, loads, mgVars, plVars, exVars, sfCalls>>

\* ---------------------------------------------------------- specifications
OldJobId == "job-0"
OldOutputKey == S3Prefix \o <<"o", "u", "t", "/">>

InitCommon ==
    /\ s3Calls = <<>>
    /\ flPc = "idle"
    /\ flBase = <<>>
    /\ flPattern = <<>>
    /\ flSorted = <<>>
    /\ flIdx = 0
    /\ flResult = None
    /\ flError = NoError
    /\ svcCalls = <<>>
    /\ pdPc = "idle"
    /\ pdArgs = [dry_run |-> FALSE, wait |-> TRUE, input_uri |-> None]
    /\ pdInputFile = None
    /\ pdOutputPrefix = <<>>
    /\ pdJobId = ""
    /\ pdResult = NoResult
    /\ pdError = NoError
    /\ wPc = "idle"
    /\ wJobId = ""
    /\ wInterval = 0
    /\ wTrace = <<>>
    /\ wJobInfo = EmptyDict
    /\ wError = NoError

\* find_latest_path is called on a bucket holding any set of objects
InitFind ==
    /\ InitCommon
    /\ entry = "find_latest_path"
    /\ bucket \in SUBSET AllKeys
    /\ svcJobs = EmptyDict
    /\ InitExt

NextFind ==
    \/ \E base \in {<<>>, S3Prefix}, pattern \in Patterns : CallFindLatestPath(base, pattern)
    \/ FindListBase
    \/ FindScanPrefix
    \/ FindNoMatch
    \/ \E err \in StorageErrors : FindListFails(err)

SpecFind == InitFind /\ [][NextFind]_vars

\* process_data is called on a service without jobs, or
\* wait_for_matching_job on a job submitted earlier
Init ==
    /\ InitCommon
    /\ \/ /\ entry = "process_data"
          /\ bucket \in {b \in SUBSET AllKeys : Cardinality(b) <= MaxProcObjects}
          /\ svcJobs = EmptyDict
       \/ /\ entry = "wait_for_matching_job"
          /\ bucket = {}
          /\ \E config \in OutputConfigs(OldOutputKey) :
                svcJobs = (OldJobId :> (("jobStatus" :> "SUBMITTED") @@ config))
    /\ InitExt

CheckIntervals == {5, DefaultCheckInterval}

Next ==
    \/ \E dry_run \in BOOLEAN, wait \in BOOLEAN, input_uri \in {None, Some(InputUri)} :
          CallProcessData(dry_run, wait, input_uri)
    \/ PdBegin
    \/ FindListBase
    \/ FindScanPrefix
    \/ FindNoMatch
    \/ \E err \in StorageErrors : FindListFails(err)
    \/ PdFound
    \/ \E config \in OutputConfigs(OutputPrefix) : PdStartJob(config)
    \/ PdStartJobFails
    \/ PdAfterWait
    \/ \E id \in DOMAIN svcJobs, check_interval \in CheckIntervals :
          CallWaitForMatchingJob(id, check_interval)
    \/ WaitPoll
    \/ WaitSleep
    \/ \E id \in DOMAIN svcJobs, status \in NonTerminal \cup Terminal,
          parts \in TerminalParts("SUCCEEDED") \cup TerminalParts("FAILED") :
          SvcAdvance(id, status, parts)

Spec == Init /\ [][Next]_vars

\* a status-check handler is invoked for a job submitted earlier, which
\* moves on by itself between invocations
InitLambda ==
    /\ InitCommon
    /\ entry \in {"check_status", "check_entity_resolution_job"}
    /\ bucket = {}
    /\ \E config \in OutputConfigs(OldOutputKey) :
          svcJobs = (OldJobId :> (("jobStatus" :> "SUBMITTED") @@ config))
    /\ InitExt

NextLambda ==
    \/ \E job_id \in {"", OldJobId} : CheckStatusHandler(job_id)
    \/ \E job_id \in {"", OldJobId}, output_path \in {None, Some(OldOutputKey)} :
          CheckJobHandler(job_id, output_path)
    \/ \E id \in DOMAIN svcJobs, status \in NonTerminal \cup Terminal,
          parts \in TerminalParts("SUCCEEDED") \cup TerminalParts("FAILED") :
          SvcAdvance(id, status, parts)

SpecLambda == InitLambda /\ [][NextLambda]_vars

\* a SnowflakeService just constructed, used method by method
InitSnowflake ==
    /\ InitCommon
    /\ entry = "SnowflakeService"
    /\ bucket = {}
    /\ svcJobs = EmptyDict
    /\ InitExt

NextSnowflake ==
    \/ \E fault \in ConnectFaults : SfCallConnect(fault)
    \/ \E connFault \in ConnectFaults, queryFault \in QueryFaults :
          SfCallExecuteQuery(connFault, queryFault)
    \/ \E cursorCloseFails \in BOOLEAN : SfCallDisconnect(cursorCloseFails)
    \/ \E conn \in whConnOpen : WhDrop(conn)

SpecSnowflake == InitSnowflake /\ [][NextSnowflake]_vars

\* load_records is called on a bucket of job outputs, or
\* load_matched_records on a connected service
InitLoad ==
    /\ InitCommon
    /\ svcJobs = EmptyDict
    /\ InitIdle
    /\ environ = Configured
    /\ whColumns \in {None, Some(CreatedColumns), Some(InsertableColumns)}
    /\ whRows \in (IF whColumns.some THEN {<<>>, <<ExistingRow(whColumns.val)>>} ELSE {<<>>})
    /\ \/ /\ entry = "load_records"
          /\ bucket \in LoadBuckets
          /\ s3Data \in {f \in [bucket -> Bodies] :
                            \A k \in bucket : k # OutKey(10, ResultsFile)
                                                 => f[k] = <<DocLine(CamelRecord)>>}
          /\ sfConnection = None
          /\ whConnOpen = {}
          /\ whNextConn = 1
       \/ /\ entry = "load_matched_records"
          /\ bucket = {}
          /\ s3Data = EmptyDict
          /\ whColumns.some
          /\ \/ sfConnection = Some(1) /\ whConnOpen = {1} /\ whNextConn = 2
             \/ sfConnection = None /\ whConnOpen = {} /\ whNextConn = 1

NextLoad ==
    \/ \E s3_key \in {None, Some(OutKey(10, ResultsFile)), Some(MissingKey)},
          dry_run \in BOOLEAN : CallLoadRecords(s3_key, dry_run)
    \/ LdBegin
    \/ FindListBase
    \/ FindScanPrefix
    \/ FindNoMatch
    \/ \E err \in StorageErrors : FindListFails(err)
    \/ LdFound
    \/ \E fault \in ReadFaults : LdRead(fault)
    \/ \E ok \in BOOLEAN : LdEnter(ok)
    \/ \E fault \in CreateFaults : LdCreateTable(fault)
    \/ \E fault \in InsertFaults : LmBatch(fault)
    \/ \E cursorCloseFails \in BOOLEAN : LdExit(cursorCloseFails)
    \/ \E records \in RecordLists : CallLoadMatchedRecords(records)

SpecLoad == InitLoad /\ [][NextLoad]_vars

\* load_data of the MERGE loader is called, once or again, on an object of
\* a bucket of job outputs; the target table is absent, empty, or holds a
\* row from an earlier load
InitMerge ==
    /\ InitCommon
    /\ InitIdle
    /\ environ = Configured
    /\ entry = "load_data"
    /\ svcJobs = EmptyDict
    /\ bucket = {OutKey(10, ResultsFile)}
    /\ s3Data \in [bucket -> Bodies]
    /\ sfConnection = None
    /\ whConnOpen = {}
    /\ whNextConn = 1
    /\ whColumns \in {None, Some(MergeColumns)}
    /\ LET Old(id) == [c \in MergeColumns |->
                          IF c = ID THEN Some(id)
                          ELSE IF c = LAST_UPDATED THEN Some(0)
                          ELSE None]
       IN whRows \in (IF whColumns.some THEN {<<>>, <<Old("1")>>, <<Old("9")>>}
                      ELSE {<<>>})

NextMerge ==
    \/ \E s3_path \in {OutKey(10, ResultsFile), MissingKey}, dry_run \in BOOLEAN :
          CallLoadData(s3_path, dry_run)
    \/ \E connectOk \in BOOLEAN, createOk \in BOOLEAN : MgStage(connectOk, createOk)
    \/ \E mergeOk \in BOOLEAN : MgMerge(mergeOk)

SpecMerge == InitMerge /\ [][NextMerge]_vars

\* one of the three stage entry points is called, with dry_run or without,
\* on a bucket that is empty or holds the output of an earlier run
InitStages ==
    /\ InitCommon
    /\ InitIdle
    /\ environ = Configured
    /\ entry \in {"extract_data", "process_data", "load_records"}
    /\ svcJobs = EmptyDict
    /\ bucket \in {{}, {OutKey(5, ResultsFile)}, {OutKey(5, ErrorsFile)}}
    /\ s3Data = [k \in bucket |-> <<DocLine(SnakeRecord)>>]
    /\ whColumns \in {None, Some(InsertableColumns)}
    /\ whRows = <<>>
    /\ whConnOpen = {}
    /\ whNextConn = 1
    /\ sfConnection = None

NextStages ==
    \/ \E s \in {Configured, [Configured EXCEPT !["source_table"] = OtherTable]},
          dry_run \in BOOLEAN : CallExtractData(s, dry_run)
    \/ \E fault \in ExtractFaults : ExtractData(fault)
    \/ \E dry_run \in BOOLEAN, wait \in BOOLEAN, input_uri \in {None, Some(InputUri)} :
          CallProcessData(dry_run, wait, input_uri)
    \/ PdBegin
    \/ FindListBase
    \/ FindScanPrefix
    \/ FindNoMatch
    \/ \E err \in StorageErrors : FindListFails(err)
    \/ PdFound
    \/ \E config \in OutputConfigs(OutputPrefix) : PdStartJob(config)
    \/ PdStartJobFails
    \/ WaitPoll
    \/ WaitSleep
    \/ \E id \in DOMAIN svcJobs, status \in NonTerminal \cup Terminal,
          parts \in TerminalParts("SUCCEEDED") \cup TerminalParts("FAILED") :
          SvcAdvance(id, status, parts)
    \/ PdAfterWait
    \/ \E s3_key \in {None, Some(OutKey(5, ResultsFile))}, dry_run \in BOOLEAN :
          CallLoadRecords(s3_key, dry_run)
    \/ LdBegin
    \/ LdFound
    \/ \E fault \in ReadFaults : LdRead(fault)
    \/ \E ok \in BOOLEAN : LdEnter(ok)
    \/ \E fault \in CreateFaults : LdCreateTable(fault)
    \/ \E fault \in InsertFaults : LmBatch(fault)
    \/ \E cursorCloseFails \in BOOLEAN : LdExit(cursorCloseFails)

SpecStages == InitStages /\ [][NextStages]_vars

\* run_pipeline is invoked on a bucket that is empty or holds the output of
\* an earlier run, with a target table that takes the loader's INSERT
InitPipeline ==
    /\ InitCommon
    /\ InitIdle
    /\ environ \in Environments
    /\ entry = "run_pipeline"
    /\ svcJobs = EmptyDict
    /\ bucket \in {{}, {OutKey(5, ResultsFile)}}
    /\ s3Data = [k \in bucket |-> <<DocLine(SnakeRecord)>>]
    /\ whColumns \in {None, Some(InsertableColumns)}
    /\ whRows = <<>>
    /\ whConnOpen = {}
    /\ whNextConn = 1
    /\ sfConnection = None

NextPipeline ==
    \/ \E dry_run \in BOOLEAN, wait \in BOOLEAN, source_table \in {None, Some(OtherTable)} :
          CallRunPipeline(dry_run, wait, source_table)
    \/ \E fault \in ExtractFaults : ExtractData(fault)
    \/ PlExtracted
    \/ PdBegin
    \/ FindListBase
    \/ FindScanPrefix
    \/ FindNoMatch
    \/ \E err \in StorageErrors : FindListFails(err)
    \/ PdFound
    \/ \E config \in OutputConfigs(OutputPrefix) : PdStartJob(config)
    \/ PdStartJobFails
    \/ WaitPoll
    \/ WaitSleep
    \/ \E id \in DOMAIN svcJobs, status \in NonTerminal \cup Terminal,
          parts \in TerminalParts("SUCCEEDED") \cup TerminalParts("FAILED") :
          SvcAdvance(id, status, parts)
    \/ \E file \in {ResultsFile, ErrorsFile} : SvcWriteOutput(file)
    \/ PdAfterWait
    \/ PlProcessed
    \/ LdBegin
    \/ LdFound
    \/ \E fault \in ReadFaults : LdRead(fault)
    \/ \E ok \in BOOLEAN : LdEnter(ok)
    \/ \E fault \in CreateFaults : LdCreateTable(fault)
    \/ \E fault \in InsertFaults : LmBatch(fault)
    \/ \E cursorCloseFails \in BOOLEAN : LdExit(cursorCloseFails)
    \/ PlLoaded

SpecPipeline == InitPipeline /\ [][NextPipeline]_vars

\* ------------------------------------------------------------- properties
Last(s) == s[Len(s)]
StatusesRead == [i \in 1..Len(Reads(wTrace)) |-> Reads(wTrace)[i].status]
GetCallsFor(id) == SelectSeq(svcCalls, LAMBDA c : c.op = "get_matching_job" /\ c.jobId = id)
StartCalls == SelectSeq(svcCalls, LAMBDA c : c.op = "start_matching_job")
WaitEnded == wPc \in {"returned", "raised"}

\* C1: when wait_for_matching_job returns after n non-terminal statuses and
\* SUCCEEDED, it has read the status n+1 times (the service received n+1
\* reads) and slept n times: once right after each non-terminal read, each
\* time for check_interval, and never after the SUCCEEDED read.
C1_PollsAndSleeps ==
    wPc = "returned" =>
        LET n == Cardinality({i \in 1..Len(StatusesRead) : StatusesRead[i] \notin Terminal})
        IN /\ Last(StatusesRead) = "SUCCEEDED"
           /\ Len(StatusesRead) = n + 1
           /\ Len(GetCallsFor(wJobId)) = n + 1
           /\ Len(Sleeps(wTrace)) = n
           /\ \A i \in 1..Len(wTrace) :
                 IF wTrace[i].op = "sleep"
                 THEN /\ wTrace[i].seconds = wInterval
                      /\ i > 1 /\ wTrace[i - 1].op = "get_job_status"
                      /\ wTrace[i - 1].status \notin Terminal
                 ELSE wTrace[i].status \notin Terminal
                         => i < Len(wTrace) /\ wTrace[i + 1].op = "sleep"

C1_Witness ==
    /\ wPc = "returned"
    /\ StatusesRead = <<"RUNNING", "RUNNING", "SUCCEEDED">>
    /\ Len(Sleeps(wTrace)) = 2

NestedKey(response) ==
    Get(Get(Get(response, "outputSourceConfig", EmptyDict), "s3OutputConfig", EmptyDict),
        "key", <<>>)

C4_FailedCarriesFirstError ==
    (StatusesRead # <<>> /\ Last(StatusesRead) = "FAILED"
        /\ Get(svcJobs[wJobId], "errors", <<>>) # <<>>) =>
        /\ wPc = "raised"
        /\ Contains(wError.msg, svcJobs[wJobId]["errors"][1])

C4_Witness ==
    /\ wPc = "raised"
    /\ Get(svcJobs[wJobId], "errors", <<>>) = <<Boom, Bang>>
    /\ wError = [type |-> "RuntimeError", msg |-> <<"Matching job failed: ", "boom">>]

\* C5: when the status read is FAILED or CANCELLED and the service reports
\* no errors (no errors entry, or an empty list), wait_for_matching_job
\* raises a RuntimeError with a generic message.
C5_NoErrorsGenericMessage ==
    (StatusesRead # <<>> /\ Last(StatusesRead) \in {"FAILED", "CANCELLED"}
        /\ Get(svcJobs[wJobId], "errors", <<>>) = <<>>) =>
        /\ wPc = "raised"
        /\ wError.type = "RuntimeError"
        /\ wError.msg \in {<<"Matching job failed: ", "Unknown error">>,
                           <<"Matching job was cancelled">>}

\* C6: process_data submits the matching job at most once; when the
\* submission fails nothing is sent to the service after it, no status is
\* read, and process_data is left with the submission error.
C6_SubmitOnceNoRetry ==
    entry = "process_data" =>
        /\ Len(StartCalls) <= 1
        /\ \A i \in 1..Len(svcCalls) :
              (svcCalls[i].op = "start_matching_job" /\ ~svcCalls[i].ok) =>
                  /\ i = Len(svcCalls)
                  /\ wPc = "idle"
                  /\ pdPc = "raised"
                  /\ pdError = SubmitError

C6_Witness ==
    /\ pdPc = "raised"
    /\ pdError = SubmitError
    /\ Len(svcCalls) = 1
    /\ ~svcCalls[1].ok

\* C7: the only operations the matching service receives are job
\* submissions (at most one) and status reads, and a step in which the
\* record of an existing job changes is a step of the service alone: it
\* carries no call and moves neither process_data nor wait_for_matching_job.
C7_StatusNeverWritten ==
    [][/\ \A i \in 1..Len(svcCalls') :
             svcCalls'[i].op \in {"start_matching_job", "get_matching_job"}
       /\ Cardinality({i \in 1..Len(svcCalls') : svcCalls'[i].op = "start_matching_job"}) <= 1
       /\ \A id \in DOMAIN svcJobs :
             /\ id \in DOMAIN svcJobs'
             /\ \/ svcJobs'[id] = svcJobs[id]
                \/ UNCHANGED <<svcCalls, pdVars, waitVars, findVars>>]_vars

C7_Witness ==
    /\ pdPc = "returned"
    /\ pdResult.status = "success"
    /\ svcJobs[pdJobId]["jobStatus"] = "SUCCEEDED"
    /\ Len(GetCallsFor(pdJobId)) >= 2

\* objects below base_prefix, split as the "/" delimiter splits them
Under(base) == {k \in bucket : StartsWith(k, base)}
InChild(base) == {k \in Under(base) : Contains(SubSeq(k, Len(base) + 1, Len(k)), <<"/">>)}
Flat(base) == Under(base) \ InChild(base)
AllListsAnswered == \A i \in 1..Len(s3Calls) : s3Calls[i].ok

\* days whose child prefix holds an object / an object matching the pattern
DaysPresent == {d \in StampDays : \E k \in bucket : StartsWith(k, ChildPrefix(d))}
DaysMatching ==
    {d \in StampDays :
        \E k \in bucket : StartsWith(k, ChildPrefix(d)) /\ Contains(k, flPattern)}

\* C8: with child prefixes named YYYYMMDD_HHMMSS under base_prefix, of which
\* at least one holds a file matching the pattern, find_latest_path returns
\* a matching file of the lexicographically greatest such prefix, having
\* listed the child prefixes from the greatest downwards and stopped there.
C8_LatestMatchingPrefix ==
    (flPc = "returned" /\ flBase = S3Prefix /\ DaysMatching # {}) =>
        \E d \in DaysMatching :
            /\ \A e \in DaysMatching \ {d} : StrLess(ChildPrefix(e), ChildPrefix(d))
            /\ flResult.some
            /\ flResult.val \in bucket
            /\ StartsWith(flResult.val, ChildPrefix(d))
            /\ Contains(flResult.val, flPattern)
            /\ LET newer == {e \in DaysPresent : ~StrLess(ChildPrefix(e), ChildPrefix(d))}
               IN /\ Len(s3Calls) = 1 + Cardinality(newer)
                  /\ \A i \in 2..Len(s3Calls) :
                        /\ \E e \in newer : s3Calls[i].Prefix = ChildPrefix(e)
                        /\ i > 2 => StrLess(s3Calls[i].Prefix, s3Calls[i - 1].Prefix)

C8_Witness ==
    /\ flPc = "returned"
    /\ flBase = S3Prefix
    /\ flPattern = JsonPattern
    /\ flResult = Some(ChildPrefix(5) \o JsonFile)
    /\ Len(s3Calls) = 4

\* C9: when every list call is answered and base_prefix holds no object at
\* all, or holds child prefixes none of which has a file matching the
\* pattern, find_latest_path returns None and raises nothing.
C9_NotFoundIsNone ==
    (flPc \in {"returned", "raised"} /\ AllListsAnswered
        /\ \/ Under(flBase) = {}
           \/ InChild(flBase) # {} /\ \A k \in InChild(flBase) : ~Contains(k, flPattern)) =>
        /\ flPc = "returned"
        /\ flResult = None
        /\ flError = NoError

C9_Witness ==
    /\ flPc = "returned"
    /\ flResult = None
    /\ flBase = S3Prefix
    /\ Cardinality(DaysPresent) >= 2
    /\ Len(s3Calls) >= 3

\* C10: when base_prefix has no child prefixes, find_latest_path makes the
\* one listing of base_prefix and returns the first (smallest key) of the
\* files directly under it that match the pattern, None when there is none.
C10_FlatListing ==
    (flPc = "returned" /\ InChild(flBase) = {}) =>
        LET matching == {k \in Flat(flBase) : Contains(k, flPattern)}
        IN /\ Len(s3Calls) = 1
           /\ IF matching = {} THEN flResult = None
              ELSE /\ flResult.some
                   /\ flResult.val \in matching
                   /\ \A k \in matching \ {flResult.val} : StrLess(flResult.val, k)

C10_Witness ==
    /\ flPc = "returned"
    /\ InChild(flBase) = {}
    /\ bucket = FlatKeys
    /\ flPattern = DotPattern
    /\ flResult = Some(S3Prefix \o JsonFile)

\* C11: when the storage service answers a list call of find_latest_path
\* with an error, that call is the last one made, find_latest_path is left
\* by exactly that error (same type, same message) and returns nothing; and
\* find_latest_path is left by an error only in that way.
C11_ListErrorPropagates ==
    /\ \A i \in 1..Len(s3Calls) :
          ~s3Calls[i].ok =>
              /\ i = Len(s3Calls)
              /\ flPc = "raised"
              /\ flError = s3Calls[i].error
              /\ flResult = None
    /\ flPc = "raised" => (s3Calls # <<>> /\ ~Last(s3Calls).ok)

C11_Witness ==
    /\ flPc = "raised"
    /\ flError = AuthError
    /\ Len(s3Calls) = 3
    /\ s3Calls[1].ok /\ s3Calls[2].ok
    /\ s3Calls[3] = FailedListCall(ChildPrefix(5), <<>>, AuthError)

\* --------------------------------------------------------- loader properties
\* the driver operations of the current call of load_records that failed
FailedDbOps ==
    {i \in (ldBase + 1)..Len(whLog) :
        whLog[i].op \in {"execute", "executemany"} /\ ~whLog[i].ok}

BodyWasRead ==
    /\ ldEvents # <<>>
    /\ ldEvents[1].event = "reading_matched_records"
    /\ s3Gets # <<>>
    /\ Last(s3Gets).ok
BodyRead == s3Data[ldEvents[1].data]

\* a name without letter case and underscores
RECURSIVE Squash(_)
Squash(name) ==
    IF name = <<>> THEN <<>>
    ELSE IF Head(name) = "_" THEN Squash(Tail(name))
    ELSE Lower(<<Head(name)>>) \o Squash(Tail(name))

\* the record has no key for target column col, however the key is spelled
LacksColumn(record, col) == \A k \in Keys(record) : Squash(k) # Squash(col)
LackingRecords(records) ==
    {r \in 1..Len(records) :
        IsDict(records[r]) /\ \E j \in 1..Len(ColumnsToUse) : LacksColumn(records[r], ColumnsToUse[j])}

\* the body is malformed JSON, or one of its records misses a target column
IsDataError(body) ==
    body # <<>> /\ (ParseBody(body).ok => LackingRecords(ParseBody(body).records) # {})

\* the warehouse answered every operation of the current call
NoDbFailure == \A i \in (ldBase + 1)..Len(whLog) : Get(whLog[i], "ok", TRUE)

Sent ==
    IF lmCalls = <<>> THEN <<>>
    ELSE SelectSeq(SubSeq(whLog, Last(lmCalls).base + 1, Len(whLog)),
                   LAMBDA e : e.op \in {"executemany", "commit"})

\* C16: a call of load_matched_records that returns has sent its n records
\* in input order as ceil(n / 1000) batches, every batch but the last of
\* exactly 1000 rows and the last of at most 1000, each batch followed by
\* one commit, and it returns n
C16_BatchesOfThousand ==
    lmPc = "returned" =>
        LET n == Len(lmRecords)
            k == (n + 999) \div 1000
        IN /\ lmResult = Some(n)
           /\ Len(Sent) = 2 * k
           /\ \A j \in 1..k :
                 LET insert == Sent[2 * j - 1]
                     first == (j - 1) * 1000
                 IN /\ insert.op = "executemany"
                    /\ insert.ok
                    /\ Len(insert.rows) <= 1000
                    /\ j < k => Len(insert.rows) = 1000
                    /\ first + Len(insert.rows) = (IF j < k THEN j * 1000 ELSE n)
                    /\ \A r \in 1..Len(insert.rows) :
                          insert.rows[r] = RowOf(lmRecords[first + r])
                    /\ Sent[2 * j].op = "commit"

C16_Witness ==
    /\ entry = "load_matched_records"
    /\ lmPc = "returned"
    /\ Len(lmRecords) = 2001
    /\ lmResult = Some(2001)
    /\ Len(Sent) = 6
    /\ Len(Sent[5].rows) = 1

\* the table row the last call of load_matched_records stored for its r-th
\* record, once the call has returned
LoadedRow(r) == whRows[Len(whRows) - Len(lmRecords) + r]

\* C17: after a load into a table that has the columns MATCH_ID and
\* MATCH_SCORE, the row of every record with a key spelled matchId (in any
\* letter case) holds that key's value in MATCH_ID, and likewise a key
\* spelled matchScore fills MATCH_SCORE
C17_MatchColumnsPopulated ==
    ( /\ lmPc = "returned"
      /\ whColumns.some
      /\ {MATCH_ID, MATCH_SCORE} \subseteq whColumns.val
      /\ Len(whRows) >= Len(lmRecords) ) =>
        \A r \in 1..Len(lmRecords) :
            LET items == lmRecords[r].items
            IN \A i \in 1..Len(items) :
                  /\ Lower(items[i].k) = Lower(KeyMatchId) =>
                        LoadedRow(r)[MATCH_ID] = Some(items[i].v)
                  /\ Lower(items[i].k) = Lower(KeyMatchScore) =>
                        LoadedRow(r)[MATCH_SCORE] = Some(items[i].v)

\* the same records were loaded by two calls of load_matched_records that
\* both returned
LoadedTwice ==
    /\ Len(lmCalls) = 2
    /\ lmPc = "returned"
    /\ lmCalls[1].records = lmCalls[2].records
    /\ lmCalls[2].rows = lmCalls[1].rows + Len(lmRecords)

\* C19: no step of a load changes or removes a row that is already in the
\* target table, rows are only added after the last one; and when the same
\* n records were loaded twice the table holds, after the rows it had
\* before, the n rows of the records followed by the same n rows again
C19_AppendOnly ==
    [][ /\ Len(whRows') >= Len(whRows)
        /\ SubSeq(whRows', 1, Len(whRows)) = whRows
        /\ LoadedTwice' =>
              LET n == Len(lmRecords')
                  before == lmCalls'[1].rows
              IN /\ Len(whRows') = before + 2 * n
                 /\ \A r \in 1..n :
                       /\ whRows'[before + r] = StoredRow(whColumns'.val, RowOf(lmRecords'[r]))
                       /\ whRows'[before + n + r] = whRows'[before + r] ]_vars

C19_Witness ==
    /\ LoadedTwice
    /\ Len(lmRecords) = 1001
    /\ lmCalls[1].rows = 1
    /\ Len(whRows) = 2003
    /\ whRows[1] = ExistingRow(whColumns.val)

\* the connect operations of the driver log that opened a connection whose
\* close is not in the log
Unclosed ==
    {i \in 1..Len(whLog) :
        /\ whLog[i].op = "connect"
        /\ whLog[i].ok
        /\ \A j \in (i + 1)..Len(whLog) :
              ~(whLog[j].op = "close" /\ whLog[j].conn = whLog[i].conn)}

C18_SecondLoadSameState ==
    \A i \in 1..(Len(mgAfter) - 1) : mgAfter[i + 1] = mgAfter[i]

\* C18 amended: a second load of the same object leaves the same number of
\* rows, adds no row with an ID the table already has, and leaves every
\* column of every row as the first load left it, except LAST_UPDATED, which
\* every row the object has a row for gets set to the time of the second load
C18_SecondLoadSameData ==
    \A i \in 1..(Len(mgAfter) - 1) :
        LET first == mgAfter[i]
            second == mgAfter[i + 1]
            body == s3Data[mgArgs.s3_path]
            source == IF body = <<>> THEN <<>> ELSE CopyRows(ParseBody(body).records)
        IN /\ Len(second) = Len(first)
           /\ \A r \in 1..Len(second), q \in 1..Len(second) :
                 second[r][ID] = second[q][ID] => r = q
           /\ \A r \in 1..Len(first) :
                 /\ \A c \in MergeColumns \ {LAST_UPDATED} : second[r][c] = first[r][c]
                 /\ second[r][LAST_UPDATED].val >= first[r][LAST_UPDATED].val
                 /\ (\E s \in 1..Len(source) : source[s][ID] = second[r][ID]) =>
                       second[r][LAST_UPDATED].val > first[r][LAST_UPDATED].val

C18_Witness ==
    /\ mgPc = "returned"
    /\ Len(mgAfter) = 2
    /\ Len(mgAfter[1]) = 3
    /\ Len(mgAfter[2]) = 3
    /\ mgAfter[2][1] = mgAfter[1][1]
    /\ mgAfter[2][2][LAST_UPDATED] # mgAfter[1][2][LAST_UPDATED]
    /\ mgResult = MergeResult("success", 0, <<>>)

\* ------------------------------------------------------- pipeline properties
\* process_data or load_records is between its call and its return
ExtractRunning == exPc = "called"
ProcessRunning == pdPc \notin {"idle", "returned", "raised"}
LoadRunning == ldPc \notin {"idle", "returned"}

\* C12: run_pipeline calls extract, process, load in this order, each at
\* most once; process is called only after extract returned success and load
\* only after process returned success, with the earlier stage at rest; a
\* stage that failed, be it by a result without success or by an exception
\* such as the one of a FAILED or CANCELLED job, is followed by no later
\* stage, and the run then ends with exit code 1
C12_StagesInOrder ==
    /\ \E n \in 0..3 : plStages = SubSeq(<<"extract", "process", "load">>, 1, n)
    /\ pdPc # "idle" => (Len(plStages) >= 2 /\ exPc = "returned" /\ exResult.success)
    /\ ldPc # "idle" =>
          /\ Len(plStages) = 3
          /\ pdPc = "returned"
          /\ pdResult.success
          /\ wPc \notin {"poll", "sleep"}
          /\ flPc \in {"idle", "returned", "raised"} \/ ldPc = "finding"
    /\ (ExtractRunning \/ ProcessRunning \/ LoadRunning) => plExit = None
    /\ (exPc = "returned" /\ ~exResult.success) =>
          /\ plStages = <<"extract">>
          /\ pdPc = "idle"
          /\ plPc \in {"extract", "exited"}
          /\ plPc = "exited" => plExit = Some(1)
    /\ (pdPc = "raised" \/ (pdPc = "returned" /\ ~pdResult.success)) =>
          /\ plStages = <<"extract", "process">>
          /\ ldPc = "idle"
          /\ plPc \in {"process", "exited"}
          /\ plPc = "exited" => plExit = Some(1)
    /\ (NewJobId \in DOMAIN svcJobs /\ wPc = "raised") => ldPc = "idle"

C12_Witness ==
    /\ plPc = "exited"
    /\ plExit = Some(1)
    /\ plStages = <<"extract", "process">>
    /\ pdPc = "raised"
    /\ NewJobId \in DOMAIN svcJobs
    /\ svcJobs[NewJobId]["jobStatus"] = "CANCELLED"
    /\ ldPc = "idle"
    /\ s3Gets = <<>>

\* C13: in a pipeline run whose process stage succeeded, every object the
\* load stage reads from storage lies below the output prefix the matching
\* job of this run was started with
C13_LoadReadsJobOutput ==
    (Len(plStages) = 3 /\ pdPc = "returned" /\ pdResult.success) =>
        \A i \in 1..Len(s3Gets) :
            s3Gets[i].ok => StartsWith(s3Gets[i].Key, OutputPrefix)

\* the three stages of the run each ended well: extraction and processing
\* returned success, and load_records returned status "success"
StagesSucceeded ==
    /\ plStages = <<"extract", "process", "load">>
    /\ plExtract.success
    /\ pdPc = "returned" /\ pdResult.success
    /\ ldPc = "returned" /\ ldResult.status = "success"

\* C21: the run subcommand exits with code 0 when its stages succeeded and
\* with code 1 when settings validation or a stage failed
C21_ExitCodes ==
    plPc = "exited" => plExit = (IF StagesSucceeded THEN Some(0) ELSE Some(1))

\* a setting one of the validators requires has no value
SettingMissing == \E p \in SettingPaths : environ[p] = ""

\* number of calls the warehouse, the storage service and the matching
\* service have received
ExternalCalls == Len(whLog) + Len(s3Calls) + Len(s3Gets) + Len(s3Puts) + Len(svcCalls)

\* names the validators wrote to stderr
EchoedNames == UNION {Range(plEcho[i].missing) : i \in 1..Len(plEcho)}

\* C22: when a setting the validators require is missing, the run makes no
\* call to the warehouse, the storage service or the matching service and
\* calls no stage; it ends with exit code 1 after a message on stderr that
\* names every missing setting
C22_MissingSettingFailsFirst ==
    SettingMissing =>
        /\ ExternalCalls = 0
        /\ plStages = <<>>
        /\ exPc = "idle" /\ pdPc = "idle" /\ ldPc = "idle"
        /\ plPc \in {"idle", "exited"}
        /\ plPc = "exited" =>
              /\ plExit = Some(1)
              /\ plEcho # <<>>
              /\ \A i \in 1..Len(plEcho) : plEcho[i].err
              /\ \A v \in 1..Len(Validators) : \A c \in 1..Len(Validators[v]) :
                    environ[Validators[v][c][1]] = "" =>
                        Validators[v][c][2] \in EchoedNames

C22_Witness ==
    /\ plPc = "exited"
    /\ environ = [Configured EXCEPT !["source_table"] = ""]
    /\ plArgs.source_table = Some(OtherTable)
    /\ plEcho = <<[err |-> TRUE, missing |-> <<"SOURCE_TABLE">>]>>
    /\ plExit = Some(1)
    /\ ExternalCalls = 0

\* C23 as stated: the settings object holds the values it was constructed
\* with for the whole run, and each stage is called with exactly these
C23_SettingsNeverModified ==
    settings.some =>
        /\ settings.val = environ
        /\ \A i \in 1..Len(plSeen) : plSeen[i] = environ

\* C23: run_pipeline constructs the settings once; a --source-table option
\* replaces source_table before the first stage is called, and from then on
\* the object is not modified: every stage is called with the same values,
\* and the query of the extract stage names that source table
C23_SettingsFixedFromFirstStage ==
    settings.some =>
        /\ \A p \in SettingPaths \ {"source_table"} : settings.val[p] = environ[p]
        /\ settings.val["source_table"] =
              (IF plStages # <<>> /\ plArgs.source_table.some
               THEN plArgs.source_table.val ELSE environ["source_table"])
        /\ Len(plSeen) = Len(plStages)
        /\ \A i \in 1..Len(plSeen) : plSeen[i] = settings.val
        /\ exPc # "idle" => exArgs.settings = settings
        /\ \A i \in 1..Len(whLog) :
              (whLog[i].op = "execute" /\ whLog[i].sql = "SELECT") =>
                  whLog[i].table = settings.val["source_table"]

C23_Witness ==
    /\ plPc = "exited"
    /\ plArgs.source_table = Some(OtherTable)
    /\ Len(plSeen) = 3
    /\ plSeen[3]["source_table"] = OtherTable
    /\ environ["source_table"] = "set"
    /\ \E i \in 1..Len(whLog) : whLog[i].op = "execute" /\ whLog[i].sql = "SELECT"
                                /\ whLog[i].table = OtherTable

\* C24: a stage entry point called with dry_run returns a result of status
\* "dry_run" and raises nothing, and from its call to its return the
\* warehouse, the storage service and the matching service receive no call
\* and hold what they held before
C24_DryRunNoExternalCalls ==
    /\ (exPc # "idle" /\ exArgs.dry_run) =>
          /\ ExternalCalls = 0
          /\ exPc \in {"called", "returned"}
          /\ exPc = "returned" => (exResult.status = "dry_run" /\ exResult.success)
    /\ (pdPc # "idle" /\ pdArgs.dry_run) =>
          /\ ExternalCalls = 0
          /\ pdPc \in {"called", "returned"}
          /\ pdPc = "returned" => pdResult.status = "dry_run"
    /\ (ldPc # "idle" /\ ldArgs.dry_run) =>
          /\ ExternalCalls = 0
          /\ ldPc \in {"called", "returned"}
          /\ ldPc = "returned" => ldResult.status = "dry_run"
    /\ ExternalCalls = 0 =>
          /\ bucket \subseteq {OutKey(5, ResultsFile), OutKey(5, ErrorsFile)}
          /\ whRows = <<>>
          /\ svcJobs = EmptyDict
          /\ whConnOpen = {}

C24_Witness ==
    /\ entry = "load_records"
    /\ ldPc = "returned"
    /\ ldArgs.dry_run
    /\ ldResult.status = "dry_run"
    /\ loads = MaxLoads
    /\ bucket = {OutKey(5, ResultsFile)}
    /\ whColumns.some
    /\ ExternalCalls = 0

\* C25: with valid settings, a dry run of run_pipeline calls extract,
\* process and load once each, in this order and each with dry_run set, and
\* ends with exit code 0
C25_DryRunCompletes ==
    (plPc = "exited" /\ plArgs.dry_run /\ ~SettingMissing) =>
        /\ plStages = <<"extract", "process", "load">>
        /\ exArgs.dry_run /\ pdArgs.dry_run /\ ldArgs.dry_run
        /\ plExit = Some(0)

\* the warehouse query of extract_data failed, or its storage write did
QueryFailures == {i \in 1..Len(whLog) : whLog[i].op = "execute" /\ ~whLog[i].ok}
WriteFailures == {i \in 1..Len(s3Puts) : ~s3Puts[i].ok}

C29_IsCompleteIffTerminal ==
    entry = "check_status" =>
        \A i \in 1..Len(lambdaCalls) :
            lambdaCalls[i].job_status.some =>
                (lambdaCalls[i].response.body.is_complete
                    <=> lambdaCalls[i].job_status.val \in Terminal)

\* C30: check_entity_resolution_job_handler answers "completed" only for a
\* terminal status, and "in_progress" for SUBMITTED, RUNNING and IN_PROGRESS.
C30_CompletedOnlyWhenTerminal ==
    entry = "check_entity_resolution_job" =>
        \A i \in 1..Len(lambdaCalls) :
            lambdaCalls[i].job_status.some =>
                /\ lambdaCalls[i].response["status"] = "completed"
                      => lambdaCalls[i].job_status.val \in Terminal
                /\ lambdaCalls[i].job_status.val \in NonTerminal
                      => lambdaCalls[i].response["status"] = "in_progress"

\* C27: a call of SnowflakeService.disconnect whose close of the cursor
\* fails raises nothing, still sends the close of the connection it held,
\* and leaves both the connection and the cursor of the service unset.
C27_DisconnectSwallowsCursorError ==
    entry = "SnowflakeService" =>
        \A i \in 1..Len(sfCalls) :
            LET c == sfCalls[i]
            IN (c.op = "disconnect" /\ c.sent # <<>>
                /\ c.sent[1] = [op |-> "cursor.close", ok |-> FALSE]) =>
                  /\ c.raised = NoError
                  /\ c.after = [connection |-> None, cursor |-> None]
                  /\ c.before.connection.some =>
                        /\ Len(c.sent) = 2
                        /\ c.sent[2] = [op |-> "close", conn |-> c.before.connection.val]

\* disconnect was called with a connection and a cursor held, and the close
\* of the cursor failed
C27_Witness ==
    /\ entry = "SnowflakeService"
    /\ \E i \in 1..Len(sfCalls) :
          /\ sfCalls[i].op = "disconnect"
          /\ sfCalls[i].before.connection.some
          /\ sfCalls[i].before.cursor.some
          /\ sfCalls[i].sent[1] = [op |-> "cursor.close", ok |-> FALSE]

\* C28: the warehouse never has more than one open connection of the
\* service, and it is the one the service holds; a connect called while the
\* connection held is open returns that connection and sends the driver
\* nothing.
C28_SingleConnection ==
    entry = "SnowflakeService" =>
        /\ Cardinality(whConnOpen) <= 1
        /\ whConnOpen # {} => sfConnection \in {Some(conn) : conn \in whConnOpen}
        /\ \A i \in 1..Len(sfCalls) :
              (sfCalls[i].op = "connect" /\ sfCalls[i].before.open) =>
                  /\ sfCalls[i].raised = NoError
                  /\ sfCalls[i].returned = sfCalls[i].before.connection
                  /\ sfCalls[i].after.connection = sfCalls[i].before.connection
                  /\ sfCalls[i].sent = <<>>

\* connect was called while the connection held was open, after a query
\* had run on it
C28_Witness ==
    /\ entry = "SnowflakeService"
    /\ \E i \in 2..Len(sfCalls) :
          /\ sfCalls[i].op = "connect"
          /\ sfCalls[i].before.open
          /\ sfCalls[i - 1].op = "execute_query"
          /\ sfCalls[i - 1].raised = NoError

====
